---------------------------- MODULE Spec2Model ----------------------------
(***************************************************************************)
(* ZGraf tunnel: the entity state machine (Vis and its subclasses), the    *)
(* Tunnel manager (addObject / removeObject / processObjects /             *)
(* checkCollisions / clear / drawObjects) and the collision test, as a     *)
(* state machine, and the projection of projection.js.                     *)
(*                                                                         *)
(* Units.  A frame duration dt is measured in reference frames of          *)
(* 16.67 ms, so dtScale = dt / 16.67 is the integer dt of the model.  The  *)
(* animation accumulators advance by dtScale * 1.8 * 0.5 = 0.9 * dtScale   *)
(* and are kept in tenths (AccumOne = 1.0).  Positions, velocities and     *)
(* extents are the integers of the source.                                 *)
(***************************************************************************)
EXTENDS Integers, Sequences, FiniteSets, TLC

(***************************************************************************)
(* Program constants (CONFIG and literals of the source).                  *)
(***************************************************************************)
TunnelLeft == -32000
TunnelRight == 32000
TunnelTop == -32000
TunnelBottom == 32000
TunnelNear == 30
TunnelFar == 65000
TunnelLength == 65000

stdFormIncr == 200
stdFormSteps == 15
stdExplIncr == 125
stdExplSteps == 25

\* accumulators are kept in tenths: 1.0 is AccumOne, 1.8 * 0.5 is AccumRate
AccumOne == 10
AccumRate == 9

\* SShot.maxLifeTime = 5000 ms; one reference frame is 16.67 ms
SShotMaxLifeTime == 5000
FrameMs100 == 1667

\* thick of a Blocker is CONFIG.ENEMIES.blocker.thick, which CONFIG does
\* not define: the field holds undefined and arithmetic on it yields NaN.
NaN == -1

(***************************************************************************)
(* Bounds of the model.                                                    *)
(***************************************************************************)
\* shots the saucers construct, shots of the player in flight, calls of
\* processObjects, calls of the other operations
MaxSShots == 1
MaxShots == 1
MaxFrames == 2
MaxCalls == 3

\* frame durations, in reference frames: a frame on time, and a stall long
\* enough (28 * 0.9 >= 25 steps) to run a whole formation or explosion
DtSet == {1, 28}

Abs(n) == IF n < 0 THEN -n ELSE n
Max(a, b) == IF a > b THEN a ELSE b
Min(a, b) == IF a < b THEN a ELSE b

\* JavaScript's % : the remainder has the sign of the dividend
JsRem(a, b) == IF a >= 0 THEN a % b ELSE -((-a) % b)

(***************************************************************************)
(* Shapes: lists of <<left, top, right, bottom>> in shape units.           *)
(***************************************************************************)
CROSS_SHAPE ==
  << <<-32, -16, 32, -3>>, <<-32, 3, 32, 16>>,
     <<-16, -32, -3, 32>>, <<3, -32, 16, 32>> >>

SAUCER_SHAPE ==
  << <<16, -4, 20, 4>>, <<12, -4, 16, 4>>, <<8, -4, 12, 4>>,
     <<4, -4, 8, 4>>, <<0, -4, 4, 4>>, <<-4, -4, 0, 4>>,
     <<-8, -4, -4, 4>>, <<-12, -4, -8, 4>>, <<-16, -4, -12, 4>>,
     <<-20, -4, -16, 4>>, <<-20, -2, 20, 2>> >>

APHID_SHAPE ==
  << <<-2, -25, 2, 25>>, <<-25, -2, 25, 2>>, <<-12, -12, 12, 12>> >>

GRABBER_SHAPE ==
  << <<-7, -32, 7, -30>>, <<-13, -30, 13, -20>>, <<-30, -27, 29, -23>>,
     <<-30, -23, -18, 32>>, <<-18, 25, -14, 28>>, <<-18, 28, -11, 32>>,
     <<12, 25, 16, 28>>, <<9, 28, 16, 32>>, <<16, -23, 29, 32>> >>

THING_SHAPE ==
  << <<-10, -10, 10, 10>>, <<-10, -10, 10, 10>>, <<-8, -8, 8, 8>>,
     <<-6, -6, 6, 6>>, <<-5, -5, 5, 5>>, <<-3, -3, 3, 3>>,
     <<-1, -3, 1, 3>>, <<-3, -1, 3, 1>> >>


(***************************************************************************)
(* The explosion record (Vis.expl).  null is NullExpl.                     *)
(***************************************************************************)
NullExpl ==
  [ isNull |-> TRUE,
    xLine |-> <<0, 0, 0, 0, 0, 0>>, yLine |-> <<0, 0, 0, 0, 0, 0>>,
    xOffset |-> <<0, 0, 0, 0, 0>>, yOffset |-> <<0, 0, 0, 0, 0>>,
    distIncr |-> 0, xHitLine |-> 0, yHitLine |-> 0, step |-> 0, lastStep |-> 0 ]

\* the while loop of initExpl: <<i, look>> when it stops
RECURSIVE HitWalk(_, _, _, _)
HitWalk(hit, look, quarter, i) ==
  IF hit > look + quarter /\ i <= 4
    THEN HitWalk(hit, look + quarter, quarter, i + 1)
    ELSE <<i, look>>

\* the hit line taken as the count of quarters stepped over
HitLineOfCount(hit, lo, hi, quarter) ==
  IF hit >= hi THEN <<4, quarter>>
  ELSE IF hit <= lo THEN <<0, quarter>>
  ELSE LET w == HitWalk(hit, lo, quarter, 0)
       IN  <<w[1], hit - w[2]>>

\* <<hitLine, offset>> of one axis; lo = -extent, hi = +extent
HitLineOf(hit, lo, hi, quarter) ==
  IF hit >= hi THEN <<4, quarter>>
  ELSE IF hit <= lo THEN <<0, quarter>>
  ELSE LET w == HitWalk(hit, lo, quarter, 0)
       IN  <<w[1] + 1, hit - w[2]>>

\* six grid lines: line[0] = first, line[1] = second, then steps of quarter
GridLines(first, second, quarter) ==
  << first, second, second + quarter, second + 2 * quarter,
     second + 3 * quarter, second + 4 * quarter >>

\* Vis.initExpl: the record assigned to this.expl
initExpl(o, xHit, yHit, distIncr, lastStep) ==
  LET xQuarter == (o.extentX - (-o.extentX)) \div 4
      yQuarter == (o.extentY - (-o.extentY)) \div 4
      hx == HitLineOf(xHit, -o.extentX, o.extentX, xQuarter)
      hy == HitLineOf(yHit, -o.extentY, o.extentY, yQuarter)
  IN  [ isNull |-> FALSE,
        xLine |-> GridLines(-o.extentX, -o.extentX + hx[2], xQuarter),
        yLine |-> GridLines(-o.extentY, -o.extentY + hy[2], yQuarter),
        xOffset |-> <<0, 0, 0, 0, 0>>, yOffset |-> <<0, 0, 0, 0, 0>>,
        distIncr |-> distIncr, xHitLine |-> hx[1], yHitLine |-> hy[1],
        step |-> 0, lastStep |-> lastStep ]

\* lane i of the source is element i + 1 of an offset tuple
AddLane(offset, i, d) == [offset EXCEPT ![i + 1] = offset[i + 1] + d]

\* the walk upward with the same increment for every lane
RECURSIVE WalkUpFlat(_, _, _)
WalkUpFlat(offset, i, incr) ==
  IF i <= 4 THEN WalkUpFlat(AddLane(offset, i, incr), i + 1, incr)
  ELSE offset

\* for (i = from; i <= 4; i++) { offset[i] += incr; incr += incr; }
RECURSIVE WalkUp(_, _, _)
WalkUp(offset, i, incr) ==
  IF i <= 4 THEN WalkUp(AddLane(offset, i, incr), i + 1, incr + incr)
  ELSE offset

\* for (i = from; i >= 0; i--) { offset[i] -= incr; incr += incr; }
RECURSIVE WalkDown(_, _, _)
WalkDown(offset, i, incr) ==
  IF i >= 0 THEN WalkDown(AddLane(offset, i, -incr), i - 1, incr + incr)
  ELSE offset

\* one axis of incrExpl: the lanes from the hit line up, then those below
IncrAxis(offset, hitLine, distIncr) ==
  WalkDown(WalkUp(offset, hitLine, distIncr), hitLine - 1, distIncr)

\* Vis.incrExpl: the record after one step (expl not null)
incrExplStep(e) ==
  [ e EXCEPT !.xOffset = IncrAxis(e.xOffset, e.xHitLine, e.distIncr),
             !.yOffset = IncrAxis(e.yOffset, e.yHitLine, e.distIncr),
             !.step = e.step + 1 ]

\* Vis.incrExpl: <<record after the call, return value>>
incrExpl(e) ==
  IF e.isNull THEN <<e, TRUE>>
  ELSE LET n == incrExplStep(e) IN <<n, n.step >= n.lastStep>>

\* Vis.initForm: the record assigned to this.expl
initForm(o, distIncr, lastStep) ==
  LET xQuarter == (o.extentX - (-o.extentX)) \div 4
      yQuarter == (o.extentY - (-o.extentY)) \div 4
      baseOffset == lastStep * distIncr
      offs == << -2 * baseOffset, -2 * baseOffset, -baseOffset,
                 baseOffset, 2 * baseOffset >>
  IN  [ isNull |-> FALSE,
        xLine |-> GridLines(-o.extentX, -o.extentX, xQuarter),
        yLine |-> GridLines(-o.extentY, -o.extentY, yQuarter),
        xOffset |-> offs, yOffset |-> offs,
        distIncr |-> -distIncr, xHitLine |-> 3, yHitLine |-> 3,
        step |-> 0, lastStep |-> lastStep ]

(***************************************************************************)
(* Entities.  One record shape for every kind, so that the collision test  *)
(* and the manager treat them alike.  tunnel is TRUE when the entity's     *)
(* back-reference is set (non-null).  lifeTime is SShot.lifeTime in        *)
(* reference frames, distanceTraveled is PShot.distanceTraveled.           *)
(***************************************************************************)
\* Vis.constructor
Vis(kind, x, y, z) ==
  [ kind |-> kind, x |-> x, y |-> y, z |-> z, vx |-> 0, vy |-> 0, vz |-> 0,
    extentX |-> 100, extentY |-> 100, thick |-> 30,
    isProcessed |-> FALSE, pleaseRemove |-> FALSE, checkCollide |-> TRUE,
    isExploding |-> FALSE, isForming |-> FALSE, expl |-> NullExpl,
    formAccum |-> 0, explAccum |-> 0, tunnel |-> FALSE,
    lifeTime |-> 0, distanceTraveled |-> 0, fShotTimer |-> 0, fShotCount |-> 0 ]

Cross(x, y, z) ==
  [Vis("Cross", x, y, z) EXCEPT !.extentX = 32 * 150, !.extentY = 32 * 150,
                                !.thick = 30]

Saucer(x, y, z) ==
  [Vis("Saucer", x, y, z) EXCEPT !.extentX = 20 * 100, !.extentY = 4 * 100,
                                 !.thick = 30]

Aphid(x, y, z) ==
  [Vis("Aphid", x, y, z) EXCEPT !.extentX = 25 * 14, !.extentY = 25 * 14,
                                !.thick = 20]

Grabber(x, y, z) ==
  [Vis("Grabber", x, y, z) EXCEPT !.extentX = 30 * 150, !.extentY = 32 * 150,
                                  !.thick = 30]

Thing(x, y, z) ==
  [Vis("Thing", x, y, z) EXCEPT !.extentX = 10 * 200, !.extentY = 10 * 200,
                                !.thick = 25]

\* new Blocker(x, y, z): horizontal, spanning the tunnel; thick is undefined
Blocker(x, y, z, barWidth) ==
  [Vis("Blocker", x, y, z) EXCEPT
     !.extentX = (TunnelRight - TunnelLeft) \div 2, !.extentY = barWidth,
     !.thick = NaN]

SShot(x, y, z) ==
  [Vis("SShot", x, y, z) EXCEPT !.extentX = 8 * 50, !.extentY = 8 * 50,
                                !.thick = 30]

PShot(x, y, z) ==
  [Vis("PShot", x, y, z) EXCEPT !.extentX = 12 * 14, !.extentY = 12 * 14,
                                !.thick = 40]

\* new Player(tunnel): at the origin, back-reference set by the constructor
Player ==
  [Vis("Player", 0, 0, 0) EXCEPT !.extentX = 500, !.extentY = 500,
                                 !.thick = 100, !.tunnel = TRUE]

(***************************************************************************)
(* Vis methods.                                                            *)
(***************************************************************************)
\* Vis.wrapZ
wrapZ(o) ==
  [o EXCEPT !.z = JsRem(JsRem(o.z, TunnelLength) + TunnelLength, TunnelLength)]

\* the clamp without the reflection
checkBoundsKeepV(o) ==
  [o EXCEPT !.x = Min(Max(o.x, TunnelLeft + o.extentX),
                      TunnelRight - o.extentX),
            !.y = Min(Max(o.y, TunnelTop + o.extentY),
                      TunnelBottom - o.extentY)]

\* Vis.checkBounds
checkBounds(o) ==
  LET a == IF o.x + o.extentX > TunnelRight
             THEN [o EXCEPT !.x = TunnelRight - o.extentX, !.vx = -o.vx]
           ELSE IF o.x - o.extentX < TunnelLeft
             THEN [o EXCEPT !.x = TunnelLeft + o.extentX, !.vx = -o.vx]
           ELSE o
  IN  IF a.y + a.extentY > TunnelBottom
        THEN [a EXCEPT !.y = TunnelBottom - a.extentY, !.vy = -a.vy]
      ELSE IF a.y - a.extentY < TunnelTop
        THEN [a EXCEPT !.y = TunnelTop + a.extentY, !.vy = -a.vy]
      ELSE a

\* the while loops of Vis.update: while (accum >= 1) { accum -= 1;
\* if (incrExpl()) { ...; break; } }  done tells whether incrExpl returned true
RECURSIVE AnimLoop(_, _)
AnimLoop(accum, e) ==
  IF accum >= AccumOne
    THEN LET r == incrExpl(e)
         IN  IF r[2]
               THEN [accum |-> accum - AccumOne, expl |-> r[1], done |-> TRUE]
               ELSE AnimLoop(accum - AccumOne, r[1])
    ELSE [accum |-> accum, expl |-> e, done |-> FALSE]

\* the formation branch of Vis.update
FormBranch(o, dt) ==
  IF o.isForming
    THEN LET r == AnimLoop(o.formAccum + dt * AccumRate, o.expl)
         IN  IF r.done
               THEN [o EXCEPT !.formAccum = r.accum, !.isForming = FALSE,
                              !.expl = NullExpl]
               ELSE [o EXCEPT !.formAccum = r.accum, !.expl = r.expl]
    ELSE o

\* ExplBranch with the flag set outside the test of incrExpl's result
ExplBranchEarly(o, dt) ==
  LET r == AnimLoop(o.explAccum + dt * AccumRate, o.expl)
  IN  [o EXCEPT !.explAccum = r.accum, !.expl = r.expl,
                !.pleaseRemove = TRUE]

\* the explosion branch of Vis.update (without its return)
ExplBranch(o, dt) ==
  LET r == AnimLoop(o.explAccum + dt * AccumRate, o.expl)
  IN  IF r.done
        THEN [o EXCEPT !.explAccum = r.accum, !.expl = r.expl,
                       !.pleaseRemove = TRUE]
        ELSE [o EXCEPT !.explAccum = r.accum, !.expl = r.expl]

\* Vis.update after its formation branch: the explosion branch and its
\* return, else the velocity step
ExplOrVelocity(f, dt) ==
  IF f.isExploding THEN ExplBranch(f, dt)
  ELSE IF f.vx # 0 \/ f.vy # 0
    THEN checkBounds([f EXCEPT !.x = f.x + f.vx * dt, !.y = f.y + f.vy * dt])
  ELSE f

\* Vis.update
VisUpdate(o, dt) == ExplOrVelocity(FormBranch(o, dt), dt)

\* explode without its guard: a second call restarts the explosion
explodeAgain(o, xHit, yHit) ==
  [o EXCEPT !.isExploding = TRUE, !.checkCollide = FALSE, !.explAccum = 0,
            !.expl = initExpl(o, xHit - o.x, yHit - o.y,
                              stdExplIncr, stdExplSteps)]

\* Vis.explode(xHit, yHit), hit point in world coordinates
explode(o, xHit, yHit) ==
  IF ~o.isExploding
    THEN [o EXCEPT !.isExploding = TRUE, !.checkCollide = FALSE,
                   !.explAccum = 0,
                   !.expl = initExpl(o, xHit - o.x, yHit - o.y,
                                     stdExplIncr, stdExplSteps)]
    ELSE o

(***************************************************************************)
(* Collision test.                                                         *)
(***************************************************************************)
\* getZFromPlayer correcting already at half the tunnel length
getZFromPlayerAtHalf(o, playerZ) ==
  LET relZ == o.z - playerZ
  IN  IF 2 * relZ >= TunnelLength THEN relZ - TunnelLength
      ELSE IF 2 * relZ < -TunnelLength THEN relZ + TunnelLength
      ELSE relZ

\* getZFromPlayer without the wraparound correction
getZFromPlayerRaw(o, playerZ) == o.z - playerZ

\* Vis.getZFromPlayer
getZFromPlayer(o, playerZ) ==
  LET relZ == o.z - playerZ
  IN  IF 2 * relZ > TunnelLength THEN relZ - TunnelLength
      ELSE IF 2 * relZ < -TunnelLength THEN relZ + TunnelLength
      ELSE relZ

ScaleShape(shape, s) ==
  [ i \in 1..Len(shape) |->
      [ left |-> shape[i][1] * s, top |-> shape[i][2] * s,
        right |-> shape[i][3] * s, bottom |-> shape[i][4] * s ] ]

\* getCollisionRects of each class (Vis's default for those without a shape)
getCollisionRects(o) ==
  CASE o.kind = "Cross" -> ScaleShape(CROSS_SHAPE, 150)
    [] o.kind = "Saucer" -> ScaleShape(SAUCER_SHAPE, 100)
    [] o.kind = "Aphid" -> ScaleShape(APHID_SHAPE, 14)
    [] o.kind = "Grabber" -> ScaleShape(GRABBER_SHAPE, 150)
    [] o.kind = "Thing" -> ScaleShape(THING_SHAPE, 200)
    [] OTHER -> << [ left |-> -o.extentX, top |-> -o.extentY,
                     right |-> o.extentX, bottom |-> o.extentY ] >>

\* Vis.deepCollide
deepCollide(a, b) ==
  LET ra == getCollisionRects(a)
      rb == getCollisionRects(b)
  IN  \E i \in 1..Len(ra), j \in 1..Len(rb) :
        /\ ~(ra[i].left + a.x > rb[j].right + b.x)
        /\ ~(ra[i].right + a.x < rb[j].left + b.x)
        /\ ~(ra[i].bottom + a.y < rb[j].top + b.y)
        /\ ~(ra[i].top + a.y > rb[j].bottom + b.y)

\* thick + Math.abs(vz): NaN when thick is undefined
ExtThick(o) == IF o.thick = NaN THEN NaN ELSE o.thick + Abs(o.vz)

\* a + b on values that may be NaN
NaNPlus(a, b) == IF a = NaN \/ b = NaN THEN NaN ELSE a + b

\* a > b where b may be NaN: every comparison with NaN is false
GtNaN(a, b) == b # NaN /\ a > b

\* the z difference of collidesWith: two successive corrections
zDiffOf(a, b) ==
  LET d == b.z - a.z
      d1 == IF 2 * d > TunnelLength THEN d - TunnelLength ELSE d
  IN  IF 2 * d1 < -TunnelLength THEN d1 + TunnelLength ELSE d1

\* the x and y tests rejecting boxes that only touch
BroadPhaseXYApart(a, b) ==
  LET aX == a.extentX + Abs(a.vx)
      aY == a.extentY + Abs(a.vy)
      bX == b.extentX + Abs(b.vx)
      bY == b.extentY + Abs(b.vy)
  IN  /\ ~(a.x + aX <= b.x - bX)
      /\ ~(a.x - aX >= b.x + bX)
      /\ ~(a.y + aY <= b.y - bY)
      /\ ~(a.y - aY >= b.y + bY)

\* the x and y tests of collidesWith: neither early return is taken
BroadPhaseXY(a, b) ==
  LET aX == a.extentX + Abs(a.vx)
      aY == a.extentY + Abs(a.vy)
      bX == b.extentX + Abs(b.vx)
      bY == b.extentY + Abs(b.vy)
  IN  /\ ~(a.x + aX < b.x - bX)
      /\ ~(a.x - aX > b.x + bX)
      /\ ~(a.y + aY < b.y - bY)
      /\ ~(a.y - aY > b.y + bY)

\* the broad phase of collidesWith: none of its early returns is taken
BroadPhase(a, b) ==
  /\ BroadPhaseXY(a, b)
  /\ ~GtNaN(Abs(zDiffOf(a, b)), NaNPlus(ExtThick(a), ExtThick(b)))

\* CanCollide with its third guard only: an object that has started
\* exploding would collide again
CanCollideExploding(a, b) ==
  /\ ~(a.isForming \/ b.isForming)

\* CanCollide without its third guard: forming objects would collide
CanCollideForming(a, b) ==
  /\ ~(~a.checkCollide \/ ~b.checkCollide)
  /\ ~(a.isExploding \/ b.isExploding)

\* the three guards that open collidesWith
CanCollide(a, b) ==
  /\ ~(~a.checkCollide \/ ~b.checkCollide)
  /\ ~(a.isExploding \/ b.isExploding)
  /\ ~(a.isForming \/ b.isForming)

\* Vis.collidesWith: a.collidesWith(b)
collidesWith(a, b) ==
  /\ CanCollide(a, b)
  /\ BroadPhase(a, b)
  /\ deepCollide(a, b)

(***************************************************************************)
(* update(dt) of each class.                                               *)
(***************************************************************************)
\* this.x += this.vx * dtScale; ... y ...; ... z ...
Move3(o, dt) ==
  [o EXCEPT !.x = o.x + o.vx * dt, !.y = o.y + o.vy * dt, !.z = o.z + o.vz * dt]

\* Cross.update
CrossUpdate(o, dt) ==
  LET s == VisUpdate(o, dt)
  IN  IF s.isExploding \/ s.isForming THEN s
      ELSE wrapZ(checkBounds(Move3(s, dt)))

\* Grabber.update
GrabberUpdate(o, dt) ==
  LET s == VisUpdate(o, dt)
  IN  IF s.isExploding \/ s.isForming THEN s
      ELSE wrapZ(checkBounds(Move3(s, dt)))

\* Thing.update (bobPhase only feeds the drawn brightness)
ThingUpdate(o, dt) == wrapZ(VisUpdate(o, dt))

\* Blocker.update
BlockerUpdate(o, dt) == VisUpdate(o, dt)

\* SShot.update
SShotUpdate(o, dt) ==
  LET m == [Move3(o, dt) EXCEPT !.lifeTime = o.lifeTime + dt]
      old == m.lifeTime * FrameMs100 > SShotMaxLifeTime * 100
      out == m.x < TunnelLeft \/ m.x > TunnelRight
               \/ m.y < TunnelTop \/ m.y > TunnelBottom
  IN  IF old \/ out THEN [m EXCEPT !.pleaseRemove = TRUE] ELSE m

\* PShot.update
PShotUpdate(o, dt) ==
  LET m == wrapZ([o EXCEPT !.z = o.z + o.vz * dt])
      d == o.distanceTraveled + Abs(o.vz * dt)
  IN  [m EXCEPT !.distanceTraveled = d,
                !.pleaseRemove = (d > TunnelFar) \/ o.pleaseRemove]

Clamp(v, lo, hi) == IF v > hi THEN hi ELSE IF v < lo THEN lo ELSE v

\* squared distance of Aphid.processFlocking, on a grid of 8 units so that
\* the squares stay within the model checker's integers
CoarseDist2(o, n) ==
  LET dx == (n.x - o.x) \div 8
      dy == (n.y - o.y) \div 8
      dz == (n.z - o.z) \div 8
  IN  dx * dx + dy * dy + dz * dz

\* the nearest-neighbour loop of processFlocking over the other objects:
\* the first one at the least distance, as a sequence of zero or one record
Nearest(o, others) ==
  IF others = <<>> THEN <<>>
  ELSE LET best == CHOOSE i \in 1..Len(others) :
                     /\ \A j \in 1..Len(others) :
                          CoarseDist2(o, others[i]) <= CoarseDist2(o, others[j])
                     /\ \A j \in 1..(i - 1) :
                          CoarseDist2(o, others[j]) > CoarseDist2(o, others[i])
       IN  << others[best] >>

\* Aphid.processFlocking.  The heading arithmetic (angle, newAngle, velocity,
\* cos and sin) yields the pair targetVx, targetVy, each of magnitude at most
\* maxVelocity = 30 * 0.5: it is an input of the model.
processFlocking(o, dt, others, targetVx, targetVy) ==
  LET nb == Nearest(o, others)
      vz1 == IF nb # <<>> /\ nb[1].vz > -100 /\ nb[1].vz < 100
               THEN IF nb[1].vz > o.vz THEN o.vz + 2 * dt
                    ELSE IF nb[1].vz < o.vz THEN o.vz - 2 * dt
                    ELSE o.vz
               ELSE o.vz
  IN  [o EXCEPT !.vx = Clamp(o.vx + targetVx * dt, -50, 50),
                !.vy = Clamp(o.vy + targetVy * dt, -50, 50),
                !.vz = Clamp(vz1, -50, 50)]

\* Aphid.update
AphidUpdate(o, dt, others, targetVx, targetVy) ==
  LET s == VisUpdate(o, dt)
  IN  IF s.isExploding \/ s.isForming THEN s
      ELSE LET f == IF s.tunnel
                      THEN processFlocking(s, dt, others, targetVx, targetVy)
                      ELSE s
           IN  wrapZ(checkBounds(Move3(f, dt)))

\* Formed keeping the accumulator of an earlier formation
FormedStale(o) ==
  [o EXCEPT !.tunnel = TRUE, !.isForming = TRUE,
            !.expl = initForm(o, stdFormIncr, stdFormSteps)]

\* Tunnel.addObject, the part that writes the object
Formed(o) ==
  [o EXCEPT !.tunnel = TRUE, !.isForming = TRUE, !.formAccum = 0,
            !.expl = initForm(o, stdFormIncr, stdFormSteps)]

\* Saucer.shootAtPlayer: the shot handed to tunnel.addObject, after addObject
shootAtPlayer(o, xDist, yDist, zFromPlayer) ==
  LET yDir == IF yDist < -4000 THEN -2 ELSE IF yDist < -2000 THEN -1
              ELSE IF yDist > 4000 THEN 2 ELSE IF yDist > 2000 THEN 1 ELSE 0
      xDir == IF xDist < -4000 THEN -2 ELSE IF xDist < -2000 THEN -1
              ELSE IF xDist > 4000 THEN 2 ELSE IF xDist > 2000 THEN 1 ELSE 0
  IN  Formed([SShot(o.x, o.y, o.z) EXCEPT
                !.vx = xDir * 10, !.vy = yDir * 10,
                !.vz = IF zFromPlayer < 0 THEN -25 ELSE 25])

\* Saucer.update from the firing-timer countdown on, m being the saucer after
\* its bounds check.  Result: the saucer and the shots it added (0 or 1).
ShootAndDrift(m, dt, p, rndShoot, rndDrift) ==
  IF ~m.tunnel THEN [o |-> wrapZ(m), shot |-> <<>>]
  ELSE
    LET zFromPlayer == getZFromPlayer(m, p.z)
        t == IF m.fShotTimer > 0 THEN m.fShotTimer - dt ELSE m.fShotTimer
        xDist == p.x - m.x
        yDist == p.y - m.y
        fires == /\ t <= 0
                 /\ Abs(zFromPlayer) < 8000 /\ rndShoot
                 /\ Abs(xDist) < 5000 /\ Abs(yDist) < 5000
        cnt == m.fShotCount + 1
        a == IF fires
               THEN [m EXCEPT !.fShotTimer = IF cnt >= 5 THEN 100 ELSE 10,
                              !.fShotCount = IF cnt >= 5 THEN 0 ELSE cnt]
               ELSE [m EXCEPT !.fShotTimer = t]
        dvx == IF p.x < a.x THEN -dt ELSE IF p.x > a.x THEN dt ELSE 0
        dvy == IF p.y < a.y THEN -dt ELSE IF p.y > a.y THEN dt ELSE 0
        d == IF rndDrift
               THEN [a EXCEPT !.vx = a.vx + dvx, !.vy = a.vy + dvy]
               ELSE a
    IN  [o |-> wrapZ(d),
         shot |-> IF fires
                    THEN << shootAtPlayer(m, xDist, yDist, zFromPlayer) >>
                    ELSE <<>>]

\* Saucer.update.  rndShoot is Math.random() > 0.95, rndDrift is
\* Math.random() > 0.5.
SaucerUpdate(o, dt, p, rndShoot, rndDrift) ==
  LET s == VisUpdate(o, dt)
  IN  IF s.isExploding \/ s.isForming THEN [o |-> s, shot |-> <<>>]
      ELSE ShootAndDrift(checkBounds(Move3(s, dt)), dt, p, rndShoot, rndDrift)

(***************************************************************************)
(* The cast: what the client constructs before handing it to the tunnel    *)
(* (Game.addCross, addSaucer, ... construct, set the velocity scaled by     *)
(* SPEED_FACTOR, and call addObject).  w is the Blocker's bar width.        *)
(***************************************************************************)
Tpl(kind, x, y, z, vx, vy, vz, w) ==
  [kind |-> kind, x |-> x, y |-> y, z |-> z, vx |-> vx, vy |-> vy, vz |-> vz,
   w |-> w]

Construct(t) ==
  LET o == CASE t.kind = "Cross" -> Cross(t.x, t.y, t.z)
             [] t.kind = "Saucer" -> Saucer(t.x, t.y, t.z)
             [] t.kind = "Aphid" -> Aphid(t.x, t.y, t.z)
             [] t.kind = "Grabber" -> Grabber(t.x, t.y, t.z)
             [] t.kind = "Thing" -> Thing(t.x, t.y, t.z)
             [] t.kind = "Blocker" -> Blocker(t.x, t.y, t.z, t.w)
  IN  [o EXCEPT !.vx = t.vx, !.vy = t.vy, !.vz = t.vz]

\* an approaching saucer a few frames from the wrap point; a stationary cross
\* in front of the player; a power-up on the near plane and an aphid about
\* to wrap; a grabber near the right wall; a blocker
Casts ==
  << << Tpl("Saucer", 0, 0, 500, 0, 0, -15, 0) >>,
     << Tpl("Cross", 0, 0, 100, 0, 0, 0, 0) >>,
     << Tpl("Thing", 0, 0, 30, 0, 0, 0, 0),
        Tpl("Aphid", 300, 0, 64990, 0, 0, 20, 0) >>,
     << Tpl("Grabber", 27000, 0, 64900, 50, 0, 50, 0) >>,
     << Tpl("Blocker", 0, 0, 120, 0, 0, 0, 400) >> >>

\* heading inputs of Aphid.processFlocking
AphidTargets == { <<15, 0>>, <<-10, 10>> }

\* impact points handed to explode(), in world coordinates
HitPoints == { <<0, 0>>, <<1000, -40000>> }

(***************************************************************************)
(* State.                                                                  *)
(***************************************************************************)
VARIABLES
  ent,        \* the entity objects, by slot
  made,       \* the shot slots constructed so far
  objects,    \* Tunnel.objects: a list of slots
  player,     \* the Player object
  shots,      \* Player.shots: a list of PShot objects
  pc,         \* "idle", or "update" inside processObjects' first loop
  idx,        \* position of that loop in objects (1-based)
  curDt,      \* the dt of the running processObjects call
  frames,     \* processObjects calls made
  calls,      \* other calls made
  updCount,   \* observer: update(dt) invocations per entity in this call
  sinceAdd,   \* observer: frames of processObjects an entity sat through
              \* since it was last added, saturating at FormFrames
  lastCall,   \* observer: the call that returned last
  result,     \* observer: arguments and return value of the last call of a
              \* pure function (getZFromPlayer, incrExpl, projectPoint)
  zgraf       \* the ZGraf application: its state and paused, the running
              \* animation loop, the fields of its Game (level, isGameOver,
              \* gameOverTime, numLiveObjs, energyDrainAccum) and the
              \* energy and score of its Player

vars == << ent, made, objects, player, shots, pc, idx, curDt, frames, calls,
           updCount, sinceAdd, lastCall, result, zgraf >>

\* frames after which 0.9 per frame has accumulated stdFormSteps whole steps
FormFrames == (stdFormSteps * AccumOne + AccumRate - 1) \div AccumRate

Range(q) == { q[i] : i \in 1..Len(q) }

Call(op, e, pre) == [op |-> op, e |-> e, pre |-> pre]

\* the slots: first the client's objects, then the shots that saucers construct
\* while the model runs
AllEnts == DOMAIN ent
Ents == 1..(Cardinality(AllEnts) - MaxSShots)
ShotSlots == AllEnts \ Ents

\* new ZGraf(): LOADING, not paused; new Game(): the demo level, nothing
\* counted; new Player(): startEnergy, no score.  gameOverTime and
\* energyDrainAccum are in reference frames.
NewZGraf ==
  [ state |-> "loading", loop |-> "loading", paused |-> FALSE,
    level |-> 0, isGameOver |-> FALSE, gameOverTime |-> 0, numLiveObjs |-> 0,
    energyDrainAccum |-> 0, energy |-> 100, score |-> 0 ]

Init ==
  /\ \E c \in 1..Len(Casts) :
       ent = [ e \in 1..(Len(Casts[c]) + MaxSShots) |->
                 IF e <= Len(Casts[c]) THEN Construct(Casts[c][e])
                 ELSE SShot(0, 0, 0) ]
  /\ made = {}
  /\ objects = <<>>
  /\ player = Player
  /\ shots = <<>>
  /\ pc = "idle"
  /\ zgraf = NewZGraf
  /\ idx = 0
  /\ curDt = 0
  /\ frames = 0
  /\ calls = 0
  /\ updCount = [e \in DOMAIN ent |-> 0]
  /\ sinceAdd = [e \in DOMAIN ent |-> 0]
  /\ lastCall = Call("new", 0, FALSE)
  /\ result = [fn |-> "none"]

\* an external call can be made: nothing is running, budget left
CanCall == pc = "idle" /\ calls < MaxCalls

Live == Ents \cup made

(***************************************************************************)
(* Tunnel: addObject, removeObject, clear.                                 *)
(***************************************************************************)
\* Tunnel.addObject(obj)
AddObject(e) ==
  /\ CanCall
  /\ e \in Live
  /\ ent' = [ent EXCEPT ![e] = Formed(ent[e])]
  /\ objects' = Append(objects, e)
  /\ sinceAdd' = [sinceAdd EXCEPT ![e] = 0]
  /\ calls' = calls + 1
  /\ lastCall' = Call("addObject", e, e \in Range(objects))
  /\ UNCHANGED << zgraf, result, made, player, shots, pc, idx, curDt, frames, updCount >>

\* Game.addCross, addSaucer, ...: addObject on an object just constructed
AddFresh(e) ==
  /\ ~ent[e].tunnel
  /\ AddObject(e)

\* this.objects.indexOf(obj): 0 stands for -1
indexOf(q, e) ==
  IF e \in Range(q) THEN CHOOSE i \in 1..Len(q) :
                           q[i] = e /\ \A j \in 1..(i - 1) : q[j] # e
  ELSE 0

\* this.objects.splice(i, 1)
splice(q, i) == SubSeq(q, 1, i - 1) \o SubSeq(q, i + 1, Len(q))

\* the list after Tunnel.removeObject(obj)
removeFrom(q, e) == IF indexOf(q, e) # 0 THEN splice(q, indexOf(q, e)) ELSE q

\* the object after Tunnel.removeObject(obj)
Detached(o) == [o EXCEPT !.tunnel = FALSE]

\* Tunnel.removeObject(obj)
RemoveObject(e) ==
  /\ CanCall
  /\ e \in Live
  /\ objects' = removeFrom(objects, e)
  /\ ent' = [ent EXCEPT ![e] = Detached(ent[e])]
  /\ calls' = calls + 1
  /\ lastCall' = Call("removeObject", e, e \in Range(objects))
  /\ UNCHANGED << zgraf, result, made, player, shots, pc, idx, curDt, frames, updCount,
                  sinceAdd >>

\* Tunnel.clear()
Clear ==
  /\ CanCall
  /\ objects' = <<>>
  /\ calls' = calls + 1
  /\ lastCall' = Call("clear", 0, FALSE)
  /\ UNCHANGED << zgraf, result, ent, made, player, shots, pc, idx, curDt, frames, updCount,
                  sinceAdd >>

\* the destroy signal: obj.explode(xHit, yHit) called from outside the tunnel
Explode(e, h) ==
  /\ CanCall
  /\ e \in Live
  /\ ent' = [ent EXCEPT ![e] = explode(ent[e], h[1], h[2])]
  /\ calls' = calls + 1
  /\ lastCall' = Call("explode", e, ent[e].isExploding)
  /\ UNCHANGED << zgraf, result, made, objects, player, shots, pc, idx, curDt, frames,
                  updCount, sinceAdd >>

(***************************************************************************)
(* Tunnel.processObjects(dt): the update loop, one object per step, then   *)
(* the purge loop.                                                         *)
(***************************************************************************)
ProcessBegin(dt) ==
  /\ pc = "idle"
  /\ frames < MaxFrames
  /\ pc' = "update"
  /\ idx' = 1
  /\ curDt' = dt
  /\ frames' = frames + 1
  /\ updCount' = [e \in AllEnts |-> 0]
  /\ UNCHANGED << zgraf, result, ent, made, objects, player, shots, calls, sinceAdd, lastCall >>

\* the records of tunnel.objects other than obj itself, in list order
OthersOf(e) ==
  LET q == SelectSeq(objects, LAMBDA f : f # e)
  IN  [i \in 1..Len(q) |-> ent[q[i]]]

\* the lowest shot slot not yet constructed
FreeSlot == CHOOSE f \in ShotSlots \ made : \A g \in ShotSlots \ made : f <= g

\* obj.update(dt); obj.isProcessed = true;  for the classes without inputs
Updated(o, dt) ==
  [ (CASE o.kind = "Cross" -> CrossUpdate(o, dt)
       [] o.kind = "Grabber" -> GrabberUpdate(o, dt)
       [] o.kind = "Thing" -> ThingUpdate(o, dt)
       [] o.kind = "Blocker" -> BlockerUpdate(o, dt)
       [] o.kind = "SShot" -> SShotUpdate(o, dt))
    EXCEPT !.isProcessed = TRUE ]

\* one iteration of: for (const obj of this.objects) if (!obj.isProcessed) ...
UpdateStep ==
  /\ pc = "update"
  /\ idx <= Len(objects)
  /\ idx' = idx + 1
  /\ LET e == objects[idx]
         o == ent[e]
     IN  IF o.isProcessed
           THEN UNCHANGED << zgraf, ent, made, objects, updCount >>
         ELSE
           /\ updCount' = [updCount EXCEPT ![e] = updCount[e] + 1]
           /\ CASE o.kind = "Saucer" ->
                     \E rndShoot \in BOOLEAN, rndDrift \in BOOLEAN :
                       LET r == SaucerUpdate(o, curDt, player, rndShoot, rndDrift)
                           u == [r.o EXCEPT !.isProcessed = TRUE]
                       IN  IF r.shot = <<>>
                             THEN /\ ent' = [ent EXCEPT ![e] = u]
                                  /\ UNCHANGED << made, objects >>
                             ELSE /\ ShotSlots \ made # {}
                                  /\ ent' = [ent EXCEPT ![e] = u,
                                                        ![FreeSlot] = r.shot[1]]
                                  /\ made' = made \cup {FreeSlot}
                                  /\ objects' = Append(objects, FreeSlot)
                [] o.kind = "Aphid" ->
                     \E t \in AphidTargets :
                       /\ ent' = [ent EXCEPT ![e] =
                                    [AphidUpdate(o, curDt, OthersOf(e), t[1], t[2])
                                       EXCEPT !.isProcessed = TRUE]]
                       /\ UNCHANGED << made, objects >>
                [] OTHER ->
                     /\ ent' = [ent EXCEPT ![e] = Updated(o, curDt)]
                     /\ UNCHANGED << made, objects >>
  /\ UNCHANGED << zgraf, result, player, shots, pc, curDt, frames, calls, sinceAdd, lastCall >>

\* ResetProcessed leaving the mark in place
ResetProcessedSkipped(o) == o

\* objects[i].isProcessed = false
ResetProcessed(o) == [o EXCEPT !.isProcessed = FALSE]

\* for (i = length - 1; i >= 0; i--) if (objects[i].pleaseRemove) splice
\* else objects[i].isProcessed = false;   i is 1-based here
RECURSIVE PurgeLoop(_, _, _)
PurgeLoop(q, en, i) ==
  IF i < 1 THEN [objects |-> q, ent |-> en]
  ELSE IF en[q[i]].pleaseRemove
    THEN PurgeLoop(splice(q, i), en, i - 1)
    ELSE PurgeLoop(q, [en EXCEPT ![q[i]] = ResetProcessed(en[q[i]])], i - 1)

\* the second loop of processObjects, and the return
Purge ==
  /\ pc = "update"
  /\ idx > Len(objects)
  /\ LET r == PurgeLoop(objects, ent, Len(objects))
     IN  /\ objects' = r.objects
         /\ ent' = r.ent
  /\ sinceAdd' = [e \in AllEnts |->
                    IF e \in Range(objects)
                      THEN Min(sinceAdd[e] + curDt, FormFrames)
                      ELSE sinceAdd[e]]
  /\ pc' = "idle"
  /\ idx' = 0
  /\ lastCall' = Call("processObjects", 0, FALSE)
  /\ UNCHANGED << zgraf, result, made, player, shots, curDt, frames, calls, updCount >>

(***************************************************************************)
(* Tunnel.checkCollisions and the onCollide handlers.                      *)
(***************************************************************************)
\* obj.onCollide(other) for the classes kept in tunnel.objects
onCollide(o, other) ==
  CASE o.kind \in {"Cross", "Saucer", "Grabber", "Aphid"} ->
         IF other.kind = "PShot" THEN explode(o, other.x, other.y)
         ELSE IF other.kind = "Player" THEN explode(o, o.x, o.y)
         ELSE o
    [] o.kind = "Thing" ->
         IF other.kind = "Player" THEN explode(o, 0, 0) ELSE o
    [] o.kind = "Blocker" ->
         IF other.kind = "PShot" THEN explode(o, other.x, other.y) ELSE o
    [] o.kind = "SShot" ->
         IF other.kind = "Player" THEN [o EXCEPT !.pleaseRemove = TRUE] ELSE o
    [] OTHER -> o

\* PShot.onCollide(other)
PShotOnCollide(s, other) ==
  IF other.kind # "Player" /\ other.kind # "PShot"
    THEN [s EXCEPT !.pleaseRemove = TRUE]
    ELSE s

\* for (const shot of player.shots) if (shot.collidesWith(obj)) { ... }
RECURSIVE ShotsLoop(_, _, _)
ShotsLoop(sh, o, j) ==
  IF j > Len(sh) THEN [shots |-> sh, o |-> o]
  ELSE IF collidesWith(sh[j], o)
    THEN ShotsLoop([sh EXCEPT ![j] = PShotOnCollide(sh[j], o)],
                   onCollide(o, sh[j]), j + 1)
    ELSE ShotsLoop(sh, o, j + 1)

\* the loop of checkCollisions over this.objects.  Player.onCollide writes
\* only the player's energy and wasHit, which the collision test never reads.
RECURSIVE CollideLoop(_, _, _, _)
CollideLoop(en, sh, q, i) ==
  IF i > Len(q) THEN [ent |-> en, shots |-> sh]
  ELSE LET o == en[q[i]]
       IN  IF ~o.checkCollide THEN CollideLoop(en, sh, q, i + 1)
           ELSE LET o1 == IF collidesWith(player, o)
                            THEN onCollide(o, player) ELSE o
                    r == ShotsLoop(sh, o1, 1)
                IN  CollideLoop([en EXCEPT ![q[i]] = r.o], r.shots, q, i + 1)

\* Tunnel.checkCollisions()
CheckCollisions ==
  /\ CanCall
  /\ LET r == CollideLoop(ent, shots, objects, 1)
     IN  /\ ent' = r.ent
         /\ shots' = r.shots
  /\ calls' = calls + 1
  /\ lastCall' = Call("checkCollisions", 0, FALSE)
  /\ UNCHANGED << zgraf, result, made, objects, player, pc, idx, curDt, frames, updCount,
                  sinceAdd >>

(***************************************************************************)
(* Player.update and Player.fire.                                          *)
(***************************************************************************)
\* velocities the acceleration and slow-down arithmetic of Player.update
\* (floating point, lines 77-90) can hand to the speed limit
PlayerRawVz == {-300, 0, 26}

\* the shot loop of Player.update, from the last shot to the first
RECURSIVE ShotUpdateLoop(_, _, _, _)
ShotUpdateLoop(sh, i, dt, pz) ==
  IF i < 1 THEN sh
  ELSE LET u == PShotUpdate(sh[i], dt)
       IN  IF u.pleaseRemove \/ getZFromPlayer(u, pz) > TunnelFar
             THEN ShotUpdateLoop(splice(sh, i), i - 1, dt, pz)
             ELSE ShotUpdateLoop([sh EXCEPT ![i] = u], i - 1, dt, pz)

\* Player.update(dt); raw is this.vz before the speed limit
PlayerUpdate(dt, raw) ==
  /\ CanCall
  /\ LET v == Max(-250, Min(250, raw))
         z == JsRem(JsRem(player.z + v * dt, TunnelLength) + TunnelLength,
                    TunnelLength)
     IN  /\ player' = [player EXCEPT !.vz = v, !.z = z]
         /\ shots' = ShotUpdateLoop(shots, Len(shots), dt, z)
  /\ calls' = calls + 1
  /\ lastCall' = Call("update", 0, FALSE)
  /\ UNCHANGED << zgraf, result, ent, made, objects, pc, idx, curDt, frames, updCount,
                  sinceAdd >>

\* Player.fire(), the cooldown elapsed
Fire ==
  /\ CanCall
  /\ Len(shots) < MaxShots
  /\ shots' = Append(shots,
                [PShot(player.x, player.y, player.z) EXCEPT
                   !.vz = player.vz + 250, !.tunnel = TRUE])
  /\ calls' = calls + 1
  /\ lastCall' = Call("fire", 0, FALSE)
  /\ UNCHANGED << zgraf, result, ent, made, objects, player, pc, idx, curDt, frames,
                  updCount, sinceAdd >>

(***************************************************************************)
(* projection.js.  Screen coordinates are quotients; a / b is the exact    *)
(* rational in lowest terms [n, d] with d > 0, so that two results are the *)
(* same number exactly when they are equal.                                *)
(***************************************************************************)
eyeToScreen == 50
screenPlaneZ == 5000
WIDTH == 640
HEIGHT == 480

RECURSIVE GCD(_, _)
GCD(a, b) == IF b = 0 THEN a ELSE GCD(b, a % b)

\* a / b for b > 0
Quot(a, b) ==
  LET g == GCD(Abs(a), b) IN [n |-> a \div g, d |-> b \div g]

\* p + q
QuotPlus(p, q) ==
  LET l == (p.d \div GCD(p.d, q.d)) * q.d
  IN  Quot(p.n * (l \div p.d) + q.n * (l \div q.d), l)

\* { x: 0, y: 0, visible: false }
NotVisible == [x |-> Quot(0, 1), y |-> Quot(0, 1), visible |-> FALSE]

\* screenX without the screen-plane term
screenXPlain(worldX, relZ, eyeOffsetX, eye, planeZ) ==
  Quot((worldX - eye.x - eyeOffsetX) * eyeToScreen, relZ)

\* let screenX = ...; if (screenPlaneZ && eyeOffsetX !== 0) screenX += ...
\* planeZ is CONFIG.STEREO.screenPlaneZ, 0 when it is not set
screenX(worldX, relZ, eyeOffsetX, eye, planeZ) ==
  LET plain == Quot((worldX - eye.x - eyeOffsetX) * eyeToScreen, relZ)
  IN  IF planeZ # 0 /\ eyeOffsetX # 0
        THEN QuotPlus(plain, Quot(eyeOffsetX * eyeToScreen, planeZ))
        ELSE plain

\* projectPoint letting the near plane in
projectPointFromNear(worldX, worldY, worldZ, eyeOffsetX, eye, planeZ) ==
  LET relZ == worldZ - eye.z
  IN  IF relZ < TunnelNear THEN NotVisible
      ELSE IF relZ > TunnelFar THEN NotVisible
      ELSE [ x |-> QuotPlus(screenX(worldX, relZ, eyeOffsetX, eye, planeZ),
                            Quot(WIDTH, 2)),
             y |-> QuotPlus(Quot((worldY - eye.y) * eyeToScreen, relZ),
                            Quot(HEIGHT, 2)),
             visible |-> TRUE ]

\* projectPoint(worldX, worldY, worldZ, eyeOffsetX); eye is the module's
\* eyeX, eyeY, eyeZ as setEyePosition left them
projectPoint(worldX, worldY, worldZ, eyeOffsetX, eye, planeZ) ==
  LET relZ == worldZ - eye.z
  IN  IF relZ <= TunnelNear THEN NotVisible
      ELSE IF relZ > TunnelFar THEN NotVisible
      ELSE [ x |-> QuotPlus(screenX(worldX, relZ, eyeOffsetX, eye, planeZ),
                            Quot(WIDTH, 2)),
             y |-> QuotPlus(Quot((worldY - eye.y) * eyeToScreen, relZ),
                            Quot(HEIGHT, 2)),
             visible |-> TRUE ]

(***************************************************************************)
(* Tunnel.drawObjects.  The pass reads the set and the player's shots and  *)
(* writes nothing that outlives it (obj.z is restored after each draw),    *)
(* so it is the function of the state that lists the draw() calls it       *)
(* makes.                                                                  *)
(***************************************************************************)
\* a comparator that puts the nearer object first
compareNearFirst(a, b, playerZ) ==
  getZFromPlayer(a, playerZ) - getZFromPlayer(b, playerZ)

\* the comparator handed to sort
compareDepth(a, b, playerZ) ==
  getZFromPlayer(b, playerZ) - getZFromPlayer(a, playerZ)

\* q is sorted; e goes behind the elements that do not compare after it
insertSorted(q, e, playerZ) ==
  LET k == Cardinality({ i \in 1..Len(q) :
                          compareDepth(ent[q[i]], ent[e], playerZ) <= 0 })
  IN  SubSeq(q, 1, k) \o <<e>> \o SubSeq(q, k + 1, Len(q))

\* [...this.objects].sort(comparator): Array.prototype.sort is stable
RECURSIVE sortFrom(_, _, _, _)
sortFrom(q, i, acc, playerZ) ==
  IF i > Len(q) THEN acc
  ELSE sortFrom(q, i + 1, insertSorted(acc, q[i], playerZ), playerZ)

sortedObjects(playerZ) == sortFrom(objects, 1, <<>>, playerZ)

\* the test with the near plane let in
inDrawRangeFromNear(o, playerZ) ==
  /\ getZFromPlayer(o, playerZ) >= TunnelNear
  /\ getZFromPlayer(o, playerZ) < TunnelFar

\* relZ > CONFIG.TUNNEL.near && relZ < CONFIG.TUNNEL.far
inDrawRange(o, playerZ) ==
  /\ getZFromPlayer(o, playerZ) > TunnelNear
  /\ getZFromPlayer(o, playerZ) < TunnelFar

keepDrawn(q, playerZ) ==
  SelectSeq(q, LAMBDA e : inDrawRange(ent[e], playerZ))

\* the draw() calls of one pass, in order: first those on members of the
\* set (slots), then those on the player's shots (positions in shots)
drawObjects ==
  [ set |-> keepDrawn(sortedObjects(player.z), player.z),
    shots |-> SelectSeq([i \in 1..Len(shots) |-> i],
                        LAMBDA i : inDrawRange(shots[i], player.z)) ]

\* the sort applied to this.objects itself
objectsSortedInPlace == sortedObjects(player.z)

\* this.objects after drawObjects: the sort is applied to the copy
\* [...this.objects], and this.objects is not assigned
objectsAfterDraw == objects

\* the body of a draw loop for an object in range: originalZ = obj.z;
\* obj.z = playerZ + relZ; obj.draw(renderer); obj.z = originalZ
\* (no draw method assigns a field of the object)
drawOne(o, playerZ) ==
  LET originalZ == o.z
      adjusted == [o EXCEPT !.z = playerZ + getZFromPlayer(o, playerZ)]
  IN  [adjusted EXCEPT !.z = originalZ]

\* the set, the entities and the player's shots when drawObjects returns
afterDraw ==
  [ objects |-> objectsAfterDraw,
    ent |-> [ e \in AllEnts |->
                IF e \in Range(drawObjects.set)
                  THEN drawOne(ent[e], player.z) ELSE ent[e] ],
    shots |-> [ i \in 1..Len(shots) |->
                  IF i \in Range(drawObjects.shots)
                    THEN drawOne(shots[i], player.z) ELSE shots[i] ] ]

(***************************************************************************)
(* Calls of the pure functions, on arguments drawn from small sets.  Each  *)
(* leaves the tunnel alone and records its arguments and return value.     *)
(* The calls do not depend on each other, so a behaviour makes one.        *)
(***************************************************************************)
NoCallYet == result.fn = "none"

\* depths in [0, L): the ends, the scenario of the specification (observer
\* at 100, entity at 64950) and pairs half a tunnel apart
DepthSet == { 0, 100, 32499, 32500, 32501, 32600, 64950, 64999 }

\* entity.getZFromPlayer(playerZ) for an entity at depth z
GetZFromPlayer(z, playerZ) ==
  /\ NoCallYet
  /\ result' = [ fn |-> "getZFromPlayer", z |-> z, playerZ |-> playerZ,
                 ret |-> getZFromPlayer(Vis("Vis", 0, 0, z), playerZ) ]
  /\ UNCHANGED << zgraf, ent, made, objects, player, shots, pc, idx, curDt, frames,
                  calls, updCount, sinceAdd, lastCall >>

\* one object of every kind, as constructed (collidable, not forming)
Specimens ==
  { Cross(0, 0, 0), Saucer(0, 0, 0), Aphid(0, 0, 0), Grabber(0, 0, 0),
    Thing(0, 0, 0), Blocker(0, 0, 0, 400), SShot(0, 0, 0), PShot(0, 0, 0),
    Player }

\* how far b is put from a on an axis, beyond the sum of their extents:
\* overlapping centres, boxes that touch, boxes one unit apart
GapSet == { "centre", "touch", "apart" }

Offset(gap, extents) ==
  CASE gap = "centre" -> 0
    [] gap = "touch" -> extents
    [] gap = "apart" -> extents + 1

\* depth differences: none, the scenario of the specification (thick 100 +
\* 100 = 200, and one more), and across the wrap point
ZDiffSet == { 0, 200, 201, 64900 }

\* velocities of b on x and z
VelSet == { 0, 50 }

\* a.collidesWith(b), a at the origin and b placed relative to it
CollidesWith(a, b, gx, gy, dz, v) ==
  LET at == [b EXCEPT !.x = Offset(gx, a.extentX + b.extentX),
                      !.y = Offset(gy, a.extentY + b.extentY),
                      !.z = dz, !.vx = v, !.vz = v]
  IN  /\ NoCallYet
      /\ result' = [ fn |-> "collidesWith", a |-> a, b |-> at,
                     ret |-> collidesWith(a, at) ]
      /\ UNCHANGED << zgraf, ent, made, objects, player, shots, pc, idx, curDt,
                      frames, calls, updCount, sinceAdd, lastCall >>

\* positive increments (the standard ones and the least) and step counts
IncrSet == { 1, 125, 200 }
StepSet == { 1, 2, 15, 25 }

\* n successive calls of incrExpl
RECURSIVE incrExplTimes(_, _)
incrExplTimes(e, n) ==
  IF n = 0 THEN e ELSE incrExplTimes(incrExpl(e)[1], n - 1)

\* o.initForm(distIncr, lastStep) followed by lastStep calls of o.incrExpl()
FormThenIncr(o, distIncr, lastStep) ==
  /\ NoCallYet
  /\ result' = [ fn |-> "incrExpl", distIncr |-> distIncr,
                 lastStep |-> lastStep,
                 expl |-> incrExplTimes(initForm(o, distIncr, lastStep),
                                        lastStep) ]
  /\ UNCHANGED << zgraf, ent, made, objects, player, shots, pc, idx, curDt, frames,
                  calls, updCount, sinceAdd, lastCall >>

\* eye positions: the origin, and a player off the axis further down
EyeSet == { [x |-> 0, y |-> 0, z |-> 0], [x |-> 20, y |-> -10, z |-> 500] }

\* depths worldZ - eyeZ: behind the eye, at it, before, on and just past the
\* near plane, the scenario's 1000, the screen plane, on and past the far
\* plane
RelZSet == { -5, 0, 10, 30, 31, 1000, 5000, 65000, 65001 }

WorldXSet == { -350, 0, 100 }
WorldYSet == { 0, 40 }

\* no offset, and the two eyes of CONFIG.STEREO.halfOffset
EyeOffsetSet == { 0, 70, -70 }

\* CONFIG.STEREO.screenPlaneZ as configured, and not set
PlaneSet == { screenPlaneZ, 0 }

\* setEyePosition(eye), then projectPoint on a point relZ beyond the eye
ProjectPoint(worldX, worldY, relZ, eyeOffsetX, eye, planeZ) ==
  /\ NoCallYet
  /\ result' = [ fn |-> "projectPoint", worldX |-> worldX, worldY |-> worldY,
                 worldZ |-> eye.z + relZ, eyeOffsetX |-> eyeOffsetX,
                 eye |-> eye, planeZ |-> planeZ,
                 ret |-> projectPoint(worldX, worldY, eye.z + relZ,
                                      eyeOffsetX, eye, planeZ) ]
  /\ UNCHANGED << zgraf, ent, made, objects, player, shots, pc, idx, curDt, frames,
                  calls, updCount, sinceAdd, lastCall >>

(***************************************************************************)
(* Specifications.  Spec: the tunnel under any sequence of calls of its    *)
(* interface and of the destroy signal.  SpecGame: the calls the game      *)
(* makes (objects are added once, right after construction; explosions     *)
(* start in checkCollisions).                                              *)
(* SpecPure: single calls of the pure functions.                           *)
(***************************************************************************)
ProcessObjects == (\E dt \in DtSet : ProcessBegin(dt)) \/ UpdateStep \/ Purge

Next ==
  \/ \E e \in AllEnts : AddObject(e)
  \/ \E e \in AllEnts : RemoveObject(e)
  \/ Clear
  \/ \E e \in AllEnts, h \in HitPoints : Explode(e, h)
  \/ CheckCollisions
  \/ ProcessObjects

Spec == Init /\ [][Next]_vars

NextGame ==
  \/ \E e \in AllEnts : AddFresh(e)
  \/ Clear
  \/ CheckCollisions
  \/ \E dt \in DtSet, raw \in PlayerRawVz : PlayerUpdate(dt, raw)
  \/ Fire
  \/ ProcessObjects

SpecGame == Init /\ [][NextGame]_vars

\* where an object is put on an axis: past the low wall by a unit or by
\* far, touching it, in the middle, touching the high wall, past it
PlaceSet == { "farLow", "pastLow", "atLow", "middle", "atHigh", "pastHigh",
              "farHigh" }

Place(where, low, high, extent) ==
  CASE where = "farLow" -> low - 5000
    [] where = "pastLow" -> low + extent - 1
    [] where = "atLow" -> low + extent
    [] where = "middle" -> (low + high) \div 2
    [] where = "atHigh" -> high - extent
    [] where = "pastHigh" -> high - extent + 1
    [] where = "farHigh" -> high + 5000

\* velocity components of the object whose bounds are checked
BounceVelSet == { -50, 0, 50 }

\* o.checkBounds() for o placed at (wx, wy) with velocity (vx, vy, vx)
CheckBounds(o, wx, wy, vx, vy) ==
  LET at == [o EXCEPT !.x = Place(wx, TunnelLeft, TunnelRight, o.extentX),
                      !.y = Place(wy, TunnelTop, TunnelBottom, o.extentY),
                      !.vx = vx, !.vy = vy, !.vz = vx]
  IN  /\ NoCallYet
      /\ result' = [ fn |-> "checkBounds", o |-> at, ret |-> checkBounds(at) ]
      /\ UNCHANGED << zgraf, ent, made, objects, player, shots, pc, idx, curDt,
                      frames, calls, updCount, sinceAdd, lastCall >>

\* impact coordinates relative to the centre, by position against the
\* extent: outside, on the edge, just inside, on the first quarter line, at
\* the centre, and the same on the high side
HitPlaceSet == { "outLow", "edgeLow", "inLow", "quarter", "centre", "inHigh",
                 "edgeHigh", "outHigh" }

HitAt(where, extent) ==
  CASE where = "outLow" -> -extent - 1
    [] where = "edgeLow" -> -extent
    [] where = "inLow" -> -extent + 1
    [] where = "quarter" -> -extent + (2 * extent) \div 4
    [] where = "centre" -> 0
    [] where = "inHigh" -> extent - 1
    [] where = "edgeHigh" -> extent
    [] where = "outHigh" -> extent + 1000

\* numbers of incrExpl calls, up to the standard lastStep
CallsSet == { 0, 1, 2, stdExplSteps }

\* o.initExpl(xHit, yHit, distIncr, stdExplSteps) followed by k calls of
\* o.incrExpl()
InitThenIncr(o, wx, wy, distIncr, k) ==
  LET xHit == HitAt(wx, o.extentX)
      yHit == HitAt(wy, o.extentY)
      init == initExpl(o, xHit, yHit, distIncr, stdExplSteps)
  IN  /\ NoCallYet
      /\ result' = [ fn |-> "initExpl", o |-> o, xHit |-> xHit, yHit |-> yHit,
                     distIncr |-> distIncr, k |-> k, init |-> init,
                     expl |-> incrExplTimes(init, k) ]
      /\ UNCHANGED << zgraf, ent, made, objects, player, shots, pc, idx, curDt,
                      frames, calls, updCount, sinceAdd, lastCall >>

\* the intersection of rect = <<left, top, right, bottom>> with grid cell
\* (xi, yi): intLeft, intTop, intRight, intBottom
cellInt(e, rect, xi, yi) ==
  << Max(rect[1], e.xLine[xi + 1]), Max(rect[2], e.yLine[yi + 1]),
     Min(rect[3], e.xLine[xi + 2]), Min(rect[4], e.yLine[yi + 2]) >>

\* the fragment drawn without its lanes' offsets
fragmentUnshifted(o, rect, xi, yi) ==
  LET c == cellInt(o.expl, rect, xi, yi)
  IN  [ xi |-> xi, yi |-> yi,
        cx2 |-> 2 * o.x + c[1] + c[3], cy2 |-> 2 * o.y + c[2] + c[4],
        w |-> c[3] - c[1], h |-> c[4] - c[2] ]

\* the rectangle handed to the renderer for cell (xi, yi); cx2, cy2, w and h
\* are twice the source's cx, cy, hw and hh, which keeps them whole
fragment(o, rect, xi, yi) ==
  LET c == cellInt(o.expl, rect, xi, yi)
  IN  [ xi |-> xi, yi |-> yi,
        cx2 |-> 2 * o.x + c[1] + c[3] + 2 * o.expl.xOffset[xi + 1],
        cy2 |-> 2 * o.y + c[2] + c[4] + 2 * o.expl.yOffset[yi + 1],
        w |-> c[3] - c[1], h |-> c[4] - c[2] ]

\* Vis.drawRectWithGridSubdivision: the renderer calls, in order
drawRectWithGridSubdivision(o, rect) ==
  LET cells == [n \in 1..25 |-> <<(n - 1) \div 5, (n - 1) % 5>>]
      valid == SelectSeq(cells, LAMBDA c :
                 LET i == cellInt(o.expl, rect, c[1], c[2])
                 IN  i[1] < i[3] /\ i[2] < i[4])
  IN  [n \in 1..Len(valid) |-> fragment(o, rect, valid[n][1], valid[n][2])]

\* primitives inside the extents, in eighths of the extent: the whole
\* extent, a bar across, a block off centre, a small block inside one cell
\* of the formation grid, a corner block, and an empty one
RectSet == { <<-8, -8, 8, 8>>, <<-8, -1, 8, 1>>, <<-3, -8, 5, 7>>,
             <<1, 2, 3, 3>>, <<-8, -8, -7, -5>>, <<2, 2, 2, 6>> }

\* the animation records an entity can be drawn with: forming, or exploding
\* from an impact at (wx, wy), after k steps
AnimSet(o) ==
  { [o EXCEPT !.isForming = TRUE,
              !.expl = incrExplTimes(initForm(o, stdFormIncr, stdFormSteps),
                                     k)] : k \in {0, 2} }
  \cup
  { [o EXCEPT !.isExploding = TRUE,
              !.expl = incrExplTimes(
                         initExpl(o, HitAt(wx, o.extentX),
                                  HitAt(wy, o.extentY),
                                  stdExplIncr, stdExplSteps), k)] :
      wx \in HitPlaceSet, wy \in HitPlaceSet, k \in {0, 2} }

\* a.drawRectWithGridSubdivision(renderer, left, top, right, bottom, ...)
\* for an animating entity a at (300, -200) and a primitive r of RectSet
DrawRect(a, r) ==
  LET o == [a EXCEPT !.x = 300, !.y = -200]
      rect == << (r[1] * o.extentX) \div 8, (r[2] * o.extentY) \div 8,
                 (r[3] * o.extentX) \div 8, (r[4] * o.extentY) \div 8 >>
  IN  /\ NoCallYet
      /\ result' = [ fn |-> "drawRect", o |-> o, rect |-> rect,
                     ret |-> drawRectWithGridSubdivision(o, rect) ]
      /\ UNCHANGED << zgraf, ent, made, objects, player, shots, pc, idx, curDt,
                      frames, calls, updCount, sinceAdd, lastCall >>

\* a.explode() for an entity a at (x, y): the parameters take their
\* defaults, xHit = 0 and yHit = 0
ExplodeNoArgs(a, x, y) ==
  LET o == [a EXCEPT !.x = x, !.y = y]
  IN  /\ NoCallYet
      /\ result' = [ fn |-> "explode", o |-> o, ret |-> explode(o, 0, 0) ]
      /\ UNCHANGED << zgraf, ent, made, objects, player, shots, pc, idx, curDt,
                      frames, calls, updCount, sinceAdd, lastCall >>

\* the shots of sh that collide with o in the shot loop of checkCollisions,
\* from shot j on
RECURSIVE HitsOf(_, _, _)
HitsOf(sh, o, j) ==
  IF j > Len(sh) THEN {}
  ELSE IF collidesWith(sh[j], o)
    THEN {j} \cup HitsOf(sh, onCollide(o, sh[j]), j + 1)
    ELSE HitsOf(sh, o, j + 1)

\* one pass of checkCollisions over en: for each object, whether the player
\* collided with it and which shots did.  An iteration writes its own object
\* and pleaseRemove of shots, which collidesWith never reads.
PassTally(en, sh) ==
  [ i \in 1..Len(en) |->
      LET o == en[i]
          hit == o.checkCollide /\ collidesWith(player, o)
          o1 == IF hit THEN onCollide(o, player) ELSE o
      IN  [ player |-> hit,
            shots |-> IF o.checkCollide THEN HitsOf(sh, o1, 1) ELSE {} ] ]

\* the classes whose onCollide calls game.hitOne(), for Player and PShot alike
HitOneKinds == { "Cross", "Saucer", "Grabber" }

\* the calls of game.hitOne() in a pass that tallied t, objects i..Len(en)
RECURSIVE hitOne(_, _, _)
hitOne(en, t, i) ==
  IF i > Len(en) THEN 0
  ELSE (IF en[i].kind \in HitOneKinds
          THEN (IF t[i].player THEN 1 ELSE 0) + Cardinality(t[i].shots)
          ELSE 0) + hitOne(en, t, i + 1)

\* the methods of Game that add an object and count it in numLiveObjs
CountedKinds == { "Cross", "Saucer", "Grabber", "Blocker" }

\* the specimens that addObject puts in tunnel.objects from the Game
PassSpecimens == { o \in Specimens : o.kind \notin {"SShot", "PShot", "Player"} }

\* depths of the first object of a pass: at the player, and away from it
PassDepthSet == { 0, 5000 }

\* checkCollisions(), k times in a row, on objects a and b added through
\* the Game and formed, b 100 units beyond a, and n shots of a player at
\* rest, all on the axis at the depth of a
Pass(a, b, za, n, k) ==
  LET en == << [a EXCEPT !.z = za, !.tunnel = TRUE],
               [b EXCEPT !.z = za + 100, !.tunnel = TRUE] >>
      sh == [ j \in 1..n |-> [PShot(0, 0, za) EXCEPT !.vz = 250,
                                                     !.tunnel = TRUE] ]
      r1 == CollideLoop(en, sh, << 1, 2 >>, 1)
      r2 == IF k = 1 THEN r1 ELSE CollideLoop(r1.ent, r1.shots, << 1, 2 >>, 1)
      t1 == PassTally(en, sh)
      t2 == PassTally(r1.ent, r1.shots)
      live == Cardinality({ i \in 1..2 : en[i].kind \in CountedKinds })
  IN  /\ NoCallYet
      /\ result' = [ fn |-> "checkCollisions", ent |-> en, shots |-> sh,
                     ret |-> r2,
                     tally |-> IF k = 1 THEN << t1 >> ELSE << t1, t2 >>,
                     numLiveObjs |->
                       live - hitOne(en, t1, 1)
                            - (IF k = 1 THEN 0 ELSE hitOne(r1.ent, t2, 1)) ]
      /\ UNCHANGED << zgraf, ent, made, objects, player, shots, pc, idx, curDt,
                      frames, calls, updCount, sinceAdd, lastCall >>

NextPure ==
  \/ \E z \in DepthSet, playerZ \in DepthSet : GetZFromPlayer(z, playerZ)
  \/ \E a \in Specimens, b \in Specimens, gx \in GapSet, gy \in GapSet,
        dz \in ZDiffSet, v \in VelSet : CollidesWith(a, b, gx, gy, dz, v)
  \/ \E o \in Specimens, distIncr \in IncrSet, lastStep \in StepSet :
       FormThenIncr(o, distIncr, lastStep)
  \/ \E worldX \in WorldXSet, worldY \in WorldYSet, relZ \in RelZSet,
        eyeOffsetX \in EyeOffsetSet, eye \in EyeSet, planeZ \in PlaneSet :
       ProjectPoint(worldX, worldY, relZ, eyeOffsetX, eye, planeZ)
  \/ \E o \in Specimens, wx \in PlaceSet, wy \in PlaceSet,
        vx \in BounceVelSet, vy \in BounceVelSet :
       CheckBounds(o, wx, wy, vx, vy)
  \/ \E o \in Specimens, wx \in HitPlaceSet, wy \in HitPlaceSet,
        distIncr \in IncrSet, k \in CallsSet :
       InitThenIncr(o, wx, wy, distIncr, k)
  \/ \E o \in Specimens, r \in RectSet : \E a \in AnimSet(o) : DrawRect(a, r)
  \/ \E o \in Specimens, x \in WorldXSet, y \in WorldYSet :
       ExplodeNoArgs(o, x, y)
  \/ \E a \in PassSpecimens, b \in PassSpecimens, za \in PassDepthSet,
        n \in 0..2, k \in 1..2 : Pass(a, b, za, n, k)

(***************************************************************************)
(* SpecFrame: the playing branch of ZGraf.gameLoop.  A frame is            *)
(* player.update(dt), tunnel.processObjects(dt), tunnel.checkCollisions()  *)
(* and then tunnel.drawObjects(renderer); objects are added and shots are  *)
(* fired between frames.  drawObjects is evaluated in the state that       *)
(* checkCollisions leaves.  Frames are bounded by MaxFrames, additions and *)
(* shots by MaxCalls.                                                      *)
(***************************************************************************)
\* no frame is under way
BetweenFrames == pc = "idle" /\ lastCall.op # "processObjects"

\* this.player.update(deltaTime); this.tunnel.processObjects(deltaTime),
\* up to the start of its update loop
gameLoopUpdate(dt, raw) ==
  /\ BetweenFrames
  /\ frames < MaxFrames
  /\ LET v == Max(-250, Min(250, raw))
         z == JsRem(JsRem(player.z + v * dt, TunnelLength) + TunnelLength,
                    TunnelLength)
     IN  /\ player' = [player EXCEPT !.vz = v, !.z = z]
         /\ shots' = ShotUpdateLoop(shots, Len(shots), dt, z)
  /\ pc' = "update"
  /\ idx' = 1
  /\ curDt' = dt
  /\ frames' = frames + 1
  /\ updCount' = [e \in AllEnts |-> 0]
  /\ lastCall' = Call("update", 0, FALSE)
  /\ UNCHANGED << zgraf, result, ent, made, objects, calls, sinceAdd >>

\* this.tunnel.checkCollisions(), after processObjects returned
gameLoopCollide ==
  /\ pc = "idle" /\ lastCall.op = "processObjects"
  /\ LET r == CollideLoop(ent, shots, objects, 1)
     IN  /\ ent' = r.ent
         /\ shots' = r.shots
  /\ lastCall' = Call("checkCollisions", 0, FALSE)
  /\ UNCHANGED << zgraf, result, made, objects, player, pc, idx, curDt, frames,
                  calls, updCount, sinceAdd >>

NextFrame ==
  \/ \E e \in AllEnts : BetweenFrames /\ AddFresh(e)
  \/ BetweenFrames /\ Fire
  \/ \E dt \in DtSet, raw \in PlayerRawVz : gameLoopUpdate(dt, raw)
  \/ UpdateStep
  \/ Purge
  \/ gameLoopCollide

SpecFrame == Init /\ [][NextFrame]_vars

\* the pure calls read nothing of the tunnel: one cast is enough
InitPure == Init /\ Len(ent) = Len(Casts[1]) + MaxSShots /\ ent[1].kind = "Saucer"

SpecPure == InitPure /\ [][NextPure]_vars

(***************************************************************************)
(* Properties.                                                             *)
(***************************************************************************)
InRange(z) == z >= 0 /\ z < TunnelLength

\* every object a collision test can be handed
Bodies == { ent[e] : e \in Live } \cup {player} \cup Range(shots)

\* the update loop of processObjects has run to its end, the purge has not
AtLoopEnd == pc = "update" /\ idx > Len(objects)

\* call op has just returned
Returned(op) == pc = "idle" /\ lastCall.op = op

\* the step taken now is the update loop reaching objects[idx]
Reaching(e) == pc = "update" /\ idx <= Len(objects) /\ objects[idx] = e

Duplicated(e) ==
  \E i, j \in 1..Len(objects) : i # j /\ objects[i] = e /\ objects[j] = e

\* C1: an update(dt) of an object in the set whose z lies in [0, L) leaves its
\* z in [0, L) (so z stays in range over any sequence of updates).  Violated
\* by SShot.update, which never wraps.
C1_UpdateKeepsZInRange ==
  [][ \A e \in AllEnts :
        Reaching(e) /\ InRange(ent[e].z) => InRange(ent'[e].z) ]_vars

C2_Guarded(o) == o.isForming \/ o.isExploding \/ ~o.checkCollide

\* C2: collidesWith(a, b) is false whenever a or b is forming, is exploding,
\* or has checkCollide cleared, wherever the two are.
C2_NoCollisionWhenGuarded ==
  \A a \in Bodies, b \in Bodies :
    C2_Guarded(a) \/ C2_Guarded(b) => ~collidesWith(a, b)

\* a forming object in the set that overlaps the player in all three axes
C2_Witness ==
  \E e \in Range(objects) :
    /\ ent[e].isForming /\ ent[e].checkCollide /\ ~ent[e].isExploding
    /\ BroadPhase(player, ent[e]) /\ deepCollide(player, ent[e])

\* C3: an object that has been in the set through FormFrames frames of
\* processObjects since addObject has left the forming state.  Violated by
\* SShot, whose update never runs the formation branch.
C3_FormedInTime ==
  pc = "idle" =>
    \A e \in Range(objects) :
      sinceAdd[e] >= FormFrames => ~ent[e].isForming

\* an exploding object is flagged exactly when its step counter has reached
\* lastStep, a flagged one does not outlive the call in the set, and no step
\* counter exceeds lastStep
C4_FlagAtLastStep ==
  /\ \A e \in Live :
       /\ ~ent[e].expl.isNull => ent[e].expl.step <= ent[e].expl.lastStep
       /\ ent[e].isExploding =>
            (ent[e].pleaseRemove <=>
               (ent[e].expl.step = ent[e].expl.lastStep))
  /\ pc = "idle" => \A e \in Range(objects) : ~ent[e].pleaseRemove

\* steps done and the fraction of the next one, in tenths of a step
C4_Progress(o) == o.expl.step * AccumOne + o.explAccum

\* an update of an exploding object not yet flagged flags it or adds
\* dt * 0.9 to its progress
C4_Advances ==
  \A e \in AllEnts :
    Reaching(e) /\ ent[e].isExploding /\ ~ent[e].pleaseRemove =>
      \/ ent'[e].pleaseRemove
      \/ C4_Progress(ent'[e]) = C4_Progress(ent[e]) + curDt * AccumRate

\* C4: an exploding object in the set is flagged in exactly the update in
\* which its step counter reaches lastStep and is purged by the same
\* processObjects call; the counter never exceeds lastStep; every call with
\* dt > 0 brings the counter closer to lastStep by dt * 0.9 steps, so that
\* repeated calls get there.
C4_ExplosionEnds == []C4_FlagAtLastStep /\ [][C4_Advances]_vars

\* an object that exploded in the set, was flagged at lastStep and purged by
\* the call that has just returned
C4_Witness ==
  /\ Returned("processObjects")
  /\ \E e \in Live :
       /\ ent[e].isExploding /\ ent[e].pleaseRemove
       /\ ent[e].expl.step = stdExplSteps
       /\ ent[e].tunnel /\ e \notin Range(objects)

\* C5: explode() on an object already exploding changes nothing of it.
C5_ExplodeTwiceNoOp ==
  [][ calls' = calls + 1 /\ lastCall'.op = "explode"
        /\ ent[lastCall'.e].isExploding
      => ent' = ent ]_vars

\* explode() has just been called on an object that was exploding, with its
\* animation already advanced
C5_Witness ==
  /\ Returned("explode") /\ lastCall.pre
  /\ ent[lastCall.e].expl.step > 0

\* C6: at the end of the update loop of a processObjects call, update(dt)
\* has been invoked exactly once on every object in the set.  Violated for an
\* object purged by an earlier call and handed to addObject again: the loop
\* finds it with isProcessed still set and skips it.
C6_UpdatedExactlyOnce ==
  AtLoopEnd => \A e \in Range(objects) : updCount[e] = 1

\* C7: when processObjects has returned, no object in the set has
\* pleaseRemove set and none has isProcessed set.
C7_CleanAfterProcess ==
  Returned("processObjects") =>
    \A e \in Range(objects) : ~ent[e].pleaseRemove /\ ~ent[e].isProcessed

\* the call that returned purged an object and kept a shot made by a saucer
C7_Witness ==
  /\ Returned("processObjects")
  /\ \E e \in Live : ent[e].pleaseRemove /\ e \notin Range(objects)
  /\ \E f \in made : f \in Range(objects)

\* C8: when addObject(e) has returned, e is in the set, forming, with
\* formation accumulator 0 and the formation preset as its animation record:
\* step 0, lastStep 15, increment -200, lanes scattered by 15 * 200.
C8_AddObjectResets ==
  Returned("addObject") =>
    LET o == ent[lastCall.e]
    IN  /\ lastCall.e \in Range(objects)
        /\ o.isForming /\ o.formAccum = 0
        /\ ~o.expl.isNull
        /\ o.expl.step = 0 /\ o.expl.lastStep = 15 /\ o.expl.distIncr = -200
        /\ o.expl.xHitLine = 3 /\ o.expl.yHitLine = 3
        /\ o.expl.xOffset = << -6000, -6000, -3000, 3000, 6000 >>
        /\ o.expl.yOffset = << -6000, -6000, -3000, 3000, 6000 >>

\* addObject has returned for an object that was in the set already and was
\* part-way through an explosion
C8_Witness ==
  /\ Returned("addObject") /\ lastCall.pre
  /\ ent[lastCall.e].isExploding
  /\ ent[lastCall.e].explAccum > 0

\* C9: no object occurs twice in the set.  Violated by addObject, which
\* appends without looking.
C9_MembershipUnique == \A e \in AllEnts : ~Duplicated(e)

\* C10: removeObject(e) for e not in the set changes neither the set nor any
\* field of e.  Violated by the unconditional obj.tunnel = null.
C10_RemoveAbsentIgnored ==
  [][ calls' = calls + 1 /\ lastCall'.op = "removeObject"
        /\ lastCall'.e \notin Range(objects)
      => objects' = objects /\ ent' = ent ]_vars

relZ(e) == getZFromPlayer(ent[e], player.z)

\* C11: in one drawObjects pass the members of the set are drawn in order of
\* non-increasing periodic relative depth from the player: of two drawn
\* members with different depths the nearer one is drawn later.
C11_FarthestFirst ==
  pc = "idle" =>
    \A i, j \in 1..Len(drawObjects.set) :
      i < j => relZ(drawObjects.set[i]) >= relZ(drawObjects.set[j])

\* two members are drawn, and the one that comes first in the set is nearer
C11_Witness ==
  /\ pc = "idle"
  /\ Len(drawObjects.set) >= 2
  /\ \E i, j \in 1..Len(objects) :
       /\ i < j /\ relZ(objects[i]) < relZ(objects[j])
       /\ inDrawRange(ent[objects[i]], player.z)
       /\ inDrawRange(ent[objects[j]], player.z)

\* C12 as stated: a member of the set is drawn if and only if
\* near <= relZ < far, the near plane included.  Violated by a member exactly
\* on the near plane, which the pass skips.
C12_DrawnFromNear ==
  pc = "idle" =>
    \A e \in Range(objects) :
      e \in Range(drawObjects.set)
        <=> (TunnelNear <= relZ(e) /\ relZ(e) < TunnelFar)

\* C12, amended: a member of the set is drawn if and only if
\* near < relZ < far, both planes excluded.
C12_DrawnInsideRange ==
  pc = "idle" =>
    \A e \in Range(objects) :
      e \in Range(drawObjects.set)
        <=> (TunnelNear < relZ(e) /\ relZ(e) < TunnelFar)

\* a member on the near plane, and a pass that draws another member
C12_Witness ==
  /\ pc = "idle"
  /\ \E e \in Range(objects) : relZ(e) = TunnelNear
  /\ \E e \in Range(objects) : e \in Range(drawObjects.set)

\* the entity of the recorded getZFromPlayer call, and one where the observer is
Entity == Vis("Vis", 0, 0, result.z)
Observer == Vis("Vis", 0, 0, result.playerZ)

\* C13: for depths za, zb in [0, L) the periodic distance is antisymmetric,
\* dist(za from zb) = -dist(zb from za), and at most L/2 in magnitude, also
\* when the raw difference is exactly L/2.
C13_AntisymmetricBounded ==
  result.fn = "getZFromPlayer" =>
    /\ result.ret = -getZFromPlayer(Observer, result.z)
    /\ 2 * Abs(result.ret) <= TunnelLength

\* a call whose raw difference is exactly L/2
C13_Witness ==
  /\ result.fn = "getZFromPlayer"
  /\ 2 * (result.z - result.playerZ) = TunnelLength
  /\ 2 * result.ret = TunnelLength

\* C14: getZFromPlayer(pz) on an entity at depth z, both in [0, L), returns
\* the shortest signed distance, congruent to z - pz modulo L and at most L/2
\* in magnitude (observer at 100, entity at 64950: -150); the depth difference
\* of the collision test is the same number.
C14_ShortestSignedDistance ==
  result.fn = "getZFromPlayer" =>
    /\ (result.ret - (result.z - result.playerZ)) % TunnelLength = 0
    /\ 2 * Abs(result.ret) <= TunnelLength
    /\ result.playerZ = 100 /\ result.z = 64950 => result.ret = -150
    /\ zDiffOf(Observer, Entity) = result.ret

\* the scenario: observer at 100, entity at 64950
C14_Witness ==
  /\ result.fn = "getZFromPlayer"
  /\ result.playerZ = 100 /\ result.z = 64950 /\ result.ret = -150

\* a <= b where b may be NaN: every comparison with NaN is false
AtMostNaN(a, b) == b # NaN /\ a <= b

\* the objects checkCollisions tests: the set, the player and its shots
InPlay == { ent[e] : e \in Range(objects) } \cup {player} \cup Range(shots)

AtRest(o) == o.vx = 0 /\ o.vy = 0 /\ o.vz = 0

\* C15: for two collidable, normal objects at rest whose x/y shapes overlap,
\* collidesWith is true if and only if the magnitude of their periodic depth
\* difference is at most the sum of their thick values.  Violated by a
\* Blocker, whose thick is undefined: the depth test never rejects it.
C15_CollidesIffWithinThick ==
  \A a \in InPlay, b \in InPlay :
    CanCollide(a, b) /\ AtRest(a) /\ AtRest(b) /\ deepCollide(a, b) =>
      ( collidesWith(a, b)
          <=> AtMostNaN(Abs(zDiffOf(a, b)), NaNPlus(a.thick, b.thick)) )

\* C16 as stated: whenever deepCollide(a, b) is true the broad phase accepts
\* the pair on the x, y and periodic depth axes.  Violated by any pair that
\* overlaps in x and y and is far apart in depth: deepCollide has no depth.
C16_BroadAcceptsDeep ==
  result.fn = "collidesWith" =>
    (deepCollide(result.a, result.b) => BroadPhase(result.a, result.b))

\* C16, amended: whenever deepCollide(a, b) is true the broad phase accepts
\* the pair on the x and y axes, for all kinds, positions and velocities.
C16_BroadXYAcceptsDeep ==
  result.fn = "collidesWith" =>
    (deepCollide(result.a, result.b) => BroadPhaseXY(result.a, result.b))

\* two objects at rest whose shapes overlap on one edge only
C16_Witness ==
  /\ result.fn = "collidesWith"
  /\ AtRest(result.b)
  /\ result.b.x - result.a.x = result.a.extentX + result.b.extentX
  /\ deepCollide(result.a, result.b)

\* C17: after initForm(distIncr, lastStep) and exactly lastStep calls of
\* incrExpl, the five lane offsets on x and the five on y are all zero.
\* Violated by lane 0, which starts with lane 1's offset and moves twice as
\* fast.
C17_AllLanesZero ==
  result.fn = "incrExpl" =>
    /\ result.expl.xOffset = <<0, 0, 0, 0, 0>>
    /\ result.expl.yOffset = <<0, 0, 0, 0, 0>>

\* C18: the animation steps applied to a forming entity by its update(dt)
\* calls depend only on the time they sum to: after sinceAdd frames the step
\* counter is min(lastStep, floor(0.9 * sinceAdd)) and the accumulator is
\* below one step.  Violated by a forming SShot, whose update applies none.
C18_StepsFollowElapsedTime ==
  pc = "idle" =>
    \A e \in Range(objects) :
      ent[e].isForming =>
        /\ ent[e].expl.step
             = Min(ent[e].expl.lastStep,
                   (AccumRate * sinceAdd[e]) \div AccumOne)
        /\ ent[e].formAccum < AccumOne

\* the depth of the recorded projectPoint call
Depth == result.worldZ - result.eye.z

Origin == [x |-> 0, y |-> 0, z |-> 0]

\* C19: projectPoint reports visible if and only if near < depth <= far, and
\* for any other depth returns the not-visible sentinel, no quotient taken.
\* With the eye at the origin and no eye offset the point (0, 0, 1000) is
\* visible at the screen centre and a point at depth 10 is not visible.
C19_VisibleInsideRange ==
  result.fn = "projectPoint" =>
    /\ result.ret.visible <=> (TunnelNear < Depth /\ Depth <= TunnelFar)
    /\ ~result.ret.visible => result.ret = NotVisible
    /\ result.ret.x.d > 0 /\ result.ret.y.d > 0
    /\ ( /\ result.eye = Origin /\ result.eyeOffsetX = 0
         /\ result.worldX = 0 /\ result.worldY = 0 /\ result.worldZ = 1000 )
       => result.ret = [ x |-> Quot(WIDTH, 2), y |-> Quot(HEIGHT, 2),
                         visible |-> TRUE ]
    /\ result.eye = Origin /\ result.worldZ = 10 => ~result.ret.visible

\* the scenario: (0, 0, 1000) seen from the origin lands on the screen centre
C19_Witness ==
  /\ result.fn = "projectPoint"
  /\ result.eye = Origin /\ result.eyeOffsetX = 0
  /\ result.worldX = 0 /\ result.worldY = 0 /\ result.worldZ = 1000
  /\ result.ret.visible /\ result.ret.x = Quot(WIDTH, 2)

C22_ExtentsPositive ==
  \A o \in InPlay :
    /\ o.extentX > 0
    /\ o.extentY > 0
    /\ o.thick # NaN
    /\ o.thick > 0

\* the relative depths of the draw() calls of one drawObjects pass, in the
\* order the calls are issued
drawnDepths ==
  [ i \in 1..Len(drawObjects.set) |-> relZ(drawObjects.set[i]) ]
    \o [ i \in 1..Len(drawObjects.shots) |->
           getZFromPlayer(shots[drawObjects.shots[i]], player.z) ]

\* C30: the draw calls of one pass, for entities and player projectiles
\* together, are issued far to near: no item is drawn after a drawn item
\* that is strictly nearer.  Violated by a player shot beyond a drawn
\* entity: the shots are drawn in a second loop, after every entity.
C30_AllDrawnFarToNear ==
  pc = "idle" =>
    \A i \in 1..Len(drawnDepths), j \in 1..Len(drawnDepths) :
      i < j => drawnDepths[i] >= drawnDepths[j]

Animating(o) == o.isForming \/ o.isExploding

\* C29: an update(dt) of an entity that is forming or exploding when the
\* call starts and when it ends leaves its position and its velocity
\* unchanged.  Violated by a forming entity with a sideways velocity:
\* Vis.update's velocity step is skipped for exploding entities only.
C29_AnimatingStaysPut ==
  [][ \A e \in AllEnts :
        /\ Reaching(e) /\ updCount'[e] = updCount[e] + 1
        /\ Animating(ent[e]) /\ Animating(ent'[e])
        => /\ ent'[e].x = ent[e].x /\ ent'[e].y = ent[e].y
           /\ ent'[e].z = ent[e].z
           /\ ent'[e].vx = ent[e].vx /\ ent'[e].vy = ent[e].vy
           /\ ent'[e].vz = ent[e].vz ]_vars

Movers == { "Cross", "Saucer", "Aphid", "Grabber" }

\* o is in the normal state
Normal(o) == ~o.isForming /\ ~o.isExploding

\* o moved by m times (vx, vy) * dt keeps its extents between the walls
ClearAfter(o, vx, vy, dt, m) ==
  /\ o.x + m * vx * dt - o.extentX >= TunnelLeft
  /\ o.x + m * vx * dt + o.extentX <= TunnelRight
  /\ o.y + m * vy * dt - o.extentY >= TunnelTop
  /\ o.y + m * vy * dt + o.extentY <= TunnelBottom

\* o stays clear of the walls during an update that takes it to n
StaysClear(o, n, dt) ==
  \A m \in 1..2 :
    ClearAfter(o, o.vx, o.vy, dt, m) /\ ClearAfter(o, n.vx, n.vy, dt, m)

\* b is a displaced by v * dt, for the velocity v before or after the update
OnceBy(a, b, v, w, dt) == b - a = v * dt \/ b - a = w * dt

\* C28: one update(dt) of a Cross, Saucer, Aphid or Grabber in the normal
\* state that stays clear of the walls displaces it by velocity * dt on
\* each of x, y and z (z modulo the tunnel length): each component is
\* integrated once.  Violated on x and y, which Vis.update and the
\* subclass's update both integrate.
C28_IntegratedOnce ==
  [][ \A e \in AllEnts :
        /\ Reaching(e) /\ updCount'[e] = updCount[e] + 1
        /\ ent[e].kind \in Movers /\ Normal(ent[e]) /\ Normal(ent'[e])
        /\ StaysClear(ent[e], ent'[e], curDt)
        => /\ OnceBy(ent[e].x, ent'[e].x, ent[e].vx, ent'[e].vx, curDt)
           /\ OnceBy(ent[e].y, ent'[e].y, ent[e].vy, ent'[e].vy, curDt)
           /\ \/ ent'[e].z = wrapZ([ent[e] EXCEPT
                                      !.z = @ + ent[e].vz * curDt]).z
              \/ ent'[e].z = wrapZ([ent[e] EXCEPT
                                      !.z = @ + ent'[e].vz * curDt]).z ]_vars

\* o's extents fit between the walls
Fits(o) ==
  /\ 2 * o.extentX <= TunnelRight - TunnelLeft
  /\ 2 * o.extentY <= TunnelBottom - TunnelTop

\* o is past the high wall, or past the low wall, on an axis
PastHigh(pos, extent, high) == pos + extent > high
PastLow(pos, extent, low) == pos - extent < low

\* one axis of C27: inside the walls afterwards; past a wall, put against it
\* with the velocity negated; otherwise left alone
AxisBounced(pos, v, extent, low, high, pos2, v2) ==
  /\ low + extent <= pos2 /\ pos2 <= high - extent
  /\ PastHigh(pos, extent, high) => pos2 = high - extent /\ v2 = -v
  /\ PastLow(pos, extent, low) => pos2 = low + extent /\ v2 = -v
  /\ ~PastHigh(pos, extent, high) /\ ~PastLow(pos, extent, low)
       => pos2 = pos /\ v2 = v

\* C27: after checkBounds on an entity whose extents fit in the tunnel, x
\* and y are between the walls by the extents; on an axis where it was past
\* a wall the position is the wall minus (plus) the extent and the velocity
\* component is negated; on the other axes position and velocity are
\* unchanged.
C27_ClampedAndReflected ==
  result.fn = "checkBounds" /\ Fits(result.o) =>
    /\ AxisBounced(result.o.x, result.o.vx, result.o.extentX,
                   TunnelLeft, TunnelRight, result.ret.x, result.ret.vx)
    /\ AxisBounced(result.o.y, result.o.vy, result.o.extentY,
                   TunnelTop, TunnelBottom, result.ret.y, result.ret.vy)
    /\ result.ret.z = result.o.z /\ result.ret.vz = result.o.vz

\* a moving entity past the right wall and clear of the top and bottom
C27_Witness ==
  /\ result.fn = "checkBounds" /\ Fits(result.o)
  /\ PastHigh(result.o.x, result.o.extentX, TunnelRight)
  /\ result.o.vx = 50 /\ result.ret.vx = -50
  /\ result.o.vy = -50 /\ result.ret.vy = -50
  /\ result.ret.x < result.o.x /\ result.ret.y = result.o.y

\* one axis of C25 (tuples are 1-based: line i is element i + 1)
GridAxisOk(line, hitLine, hit, extent) ==
  /\ hitLine \in 0..4
  /\ \A i \in 1..5 : line[i] <= line[i + 1]
  /\ line[1] = -extent
  /\ line[6] >= extent
  /\ (-extent < hit /\ hit < extent) => line[hitLine + 1] = hit

RECURSIVE Pow2(_)
Pow2(n) == IF n = 0 THEN 1 ELSE 2 * Pow2(n - 1)

\* one axis of C24 after k steps of d from hit lane h
LaneOffsetsOk(offset, line, h, d, k) ==
  /\ \A i \in 0..4 :
       offset[i + 1] = IF i >= h THEN k * d * Pow2(i - h)
                       ELSE -(k * d * Pow2(h - 1 - i))
  /\ \A i \in 0..3 : line[i + 2] + offset[i + 1] <= line[i + 2] + offset[i + 2]

\* C24: after initExpl with increment d and k calls of incrExpl, lane i of
\* an axis with hit lane h has offset k * d * 2^(i - h) when i >= h and
\* -k * d * 2^(h - 1 - i) when i < h (all zero at k = 0), and no lane has
\* moved past its neighbour: the displaced upper edge of lane i is not
\* beyond the displaced lower edge of lane i + 1.
C24_OffsetsDoublePerLane ==
  result.fn = "initExpl" =>
    /\ LaneOffsetsOk(result.expl.xOffset, result.expl.xLine,
                     result.init.xHitLine, result.distIncr, result.k)
    /\ LaneOffsetsOk(result.expl.yOffset, result.expl.yLine,
                     result.init.yHitLine, result.distIncr, result.k)
    /\ result.expl.step = result.k

\* two steps of the standard increment from hit lane 2 on x
C24_Witness ==
  /\ result.fn = "initExpl" /\ result.k = 2 /\ result.distIncr = stdExplIncr
  /\ result.init.xHitLine = 2
  /\ result.expl.xOffset = <<-500, -250, 250, 500, 1000>>

\* the fragment f of the recorded drawRect call with its lanes' offsets
\* taken off again: <<left, top, right, bottom>> relative to the entity
Unshifted(f) ==
  LET ox == result.o.x + result.o.expl.xOffset[f.xi + 1]
      oy == result.o.y + result.o.expl.yOffset[f.yi + 1]
  IN  << (f.cx2 - f.w) \div 2 - ox, (f.cy2 - f.h) \div 2 - oy,
         (f.cx2 + f.w) \div 2 - ox, (f.cy2 + f.h) \div 2 - oy >>

\* the interiors of rectangles p and q are disjoint
Apart(p, q) == p[3] <= q[1] \/ q[3] <= p[1] \/ p[4] <= q[2] \/ q[4] <= p[2]

\* p lies within q and has an interior
Within(p, q) ==
  /\ q[1] <= p[1] /\ p[1] < p[3] /\ p[3] <= q[3]
  /\ q[2] <= p[2] /\ p[2] < p[4] /\ p[4] <= q[4]

RECURSIVE AreaFrom(_, _)
AreaFrom(frags, n) ==
  IF n > Len(frags) THEN 0
  ELSE frags[n].w * frags[n].h + AreaFrom(frags, n + 1)

\* C26: the fragments emitted for a primitive rectangle inside the extents
\* of a forming or exploding entity, each moved back by the x offset of its
\* column lane and the y offset of its row lane, lie within the primitive,
\* do not overlap each other, and have the primitive's area in total: they
\* cover exactly the primitive.
C26_FragmentsTilePrimitive ==
  result.fn = "drawRect" =>
    /\ \A n \in 1..Len(result.ret) : Within(Unshifted(result.ret[n]), result.rect)
    /\ \A n \in 1..Len(result.ret), m \in 1..Len(result.ret) :
         n # m => Apart(Unshifted(result.ret[n]), Unshifted(result.ret[m]))
    /\ AreaFrom(result.ret, 1)
         = (result.rect[3] - result.rect[1]) * (result.rect[4] - result.rect[2])

\* an exploding entity two steps on, whose whole extent is drawn in more
\* than four fragments with different offsets
C26_Witness ==
  /\ result.fn = "drawRect" /\ result.o.isExploding
  /\ result.o.expl.step = 2
  /\ result.rect = << -result.o.extentX, -result.o.extentY,
                      result.o.extentX, result.o.extentY >>
  /\ Len(result.ret) > 4
  /\ \E n \in 1..Len(result.ret) :
       /\ result.o.expl.xOffset[result.ret[n].xi + 1] > 0
       /\ result.o.expl.yOffset[result.ret[n].yi + 1] < 0

Drawn ==
  { ent[drawObjects.set[i]] : i \in 1..Len(drawObjects.set) }
    \cup { shots[drawObjects.shots[i]] : i \in 1..Len(drawObjects.shots) }

\* C21: an entity or projectile flagged for removal during a frame's
\* collision pass is purged before that frame's draw and is not drawn: in
\* the state the collision pass leaves, which is the state drawn, no drawn
\* object is flagged.  Violated by a player shot that hits an entity: the
\* purges run before checkCollisions, in player.update and processObjects.
C21_FlaggedNotDrawn ==
  Returned("checkCollisions") => \A o \in Drawn : ~o.pleaseRemove

\* C34: explode() without an impact point uses the entity's own centre as
\* the hit point: the explosion record (hit lanes, grid lines) is the one
\* explode(entity.x, entity.y) gives, wherever the entity is.  Violated by
\* an entity off the tunnel axis: the defaults are the world origin.
C34_DefaultHitIsCentre ==
  result.fn = "explode" =>
    result.ret.expl = explode(result.o, result.o.x, result.o.y).expl

\* C35: no entity is forming and exploding at the same time, whatever the
\* sequence of addObject, update, checkCollisions and explode calls.
\* Violated by explode() on a forming entity: explode tests isExploding
\* only, and Vis.update then runs both branches on the one record.
C35_NeverFormingAndExploding ==
  \A o \in Bodies : ~(o.isForming /\ o.isExploding)

\* C31: every player shot is removed in the end under continued
\* Player.update(dt) calls with dt > 0, because its travelled distance is
\* capped: an update that keeps a shot leaves it with a greater travelled
\* distance than before, so that the cap is reached after finitely many
\* updates.  Violated by a shot fired at full reverse speed: its velocity
\* is -250 + 250 = 0 and its travelled distance stays 0.
C31_ShotNearsItsCap ==
  [][ lastCall'.op = "update" /\ calls' = calls + 1 /\ Len(shots') = Len(shots)
        => \A i \in 1..Len(shots) :
             shots'[i].distanceTraveled > shots[i].distanceTraveled ]_vars

(***************************************************************************)
(* Collision passes: hits per shot, hits per enemy, the live count.        *)
(***************************************************************************)
\* the positive collisions of shot j in the passes recorded: (pass, object)
HitsByShot(j) ==
  { pi \in (1..Len(result.tally)) \X (1..Len(result.ent)) :
      j \in result.tally[pi[1]][pi[2]].shots }

\* C37: a player shot collides positively with at most one entity, over the
\* pass that flags it and the passes after it
C37_ShotHitsOneEntity ==
  result.fn = "checkCollisions" =>
    \A j \in 1..Len(result.shots) : Cardinality(HitsByShot(j)) <= 1

\* the calls of onCollide on object i in the passes recorded: (pass, 0) for
\* the player, (pass, j) for shot j
HitsOn(i) ==
  { pw \in (1..Len(result.tally)) \X (0..Len(result.shots)) :
      \/ pw[2] = 0 /\ result.tally[pw[1]][i].player
      \/ pw[2] \in result.tally[pw[1]][i].shots }

\* C36: onCollide, which calls hitOne, earns the shot its points and goes
\* with the player's damage, is called at most once on a Cross, Saucer or
\* Grabber, whatever overlaps it
C36_EnemyDestroyedOnce ==
  result.fn = "checkCollisions" =>
    \A i \in 1..Len(result.ent) :
      result.ent[i].kind \in HitOneKinds => Cardinality(HitsOn(i)) <= 1

\* an enemy at the player's depth with two shots on it, two passes made
C36_Witness ==
  /\ result.fn = "checkCollisions"
  /\ Len(result.shots) = 2 /\ Len(result.tally) = 2
  /\ result.ent[1].kind \in HitOneKinds /\ result.ent[1].z = 0
  /\ result.tally[1][1].player
  /\ Cardinality(HitsOn(1)) = 1
  /\ result.ret.ent[1].isExploding

\* C38: numLiveObjs is the number of counted objects that have not started
\* exploding, and is never negative
C38_LiveCountMatches ==
  result.fn = "checkCollisions" =>
    /\ result.numLiveObjs >= 0
    /\ result.numLiveObjs =
         Cardinality({ i \in 1..Len(result.ent) :
                         /\ result.ent[i].kind \in CountedKinds
                         /\ ~result.ret.ent[i].isExploding })

(***************************************************************************)
(* SpecApp: the ZGraf application.  loadingLoop, introLoop and gameLoop    *)
(* run one after the other; mousedown and keydown arrive between frames.   *)
(* The objects a level adds are beyond the casts, so the tunnel stays      *)
(* empty here and a frame takes what its collision pass does to the player *)
(* and the Game as an input.  Game.attractModeTime only drives the         *)
(* flashing text and is left out.  Frames are bounded by MaxLoops.         *)
(* lastCall records the loop that ran last, or a restart since.            *)
(***************************************************************************)
MaxLoops == 4

GAME_OVER_DURATION == 7000

\* frame durations of gameLoop, in reference frames: 3.5 s, twice of which
\* reach GAME_OVER_DURATION, and a tab left in the background for 167 s
DtApp == { 210, 10000 }

\* velocities handed to the speed limit of Player.update: beyond it
\* backwards, and within it
AppRawVz == { -300, 26 }

\* takeDamage without its floor
takeDamageUnclamped(energy, amount) == energy - amount

\* Player.takeDamage(amount), on the energy
takeDamage(energy, amount) ==
  IF energy - amount < 0 THEN 0 ELSE energy - amount

\* what a collision pass finds: nothing; the player on a Cross, on an SShot
\* or on a Thing; a shot of the player on a Saucer
PassOutcomes == { "none", "Cross", "SShot", "Thing", "shot" }

\* the onCollide handlers of a pass with outcome out, on g
checkCollisionsOn(g, out) ==
  CASE out = "Cross" ->
         [g EXCEPT !.energy = takeDamage(g.energy, 1),
                   !.numLiveObjs = g.numLiveObjs - 1]
    [] out = "SShot" ->
         [g EXCEPT !.energy = takeDamage(takeDamage(g.energy, 1), 15)]
    [] out = "Thing" ->
         [g EXCEPT !.energy = Min(100, g.energy + 40)]
    [] out = "shot" ->
         [g EXCEPT !.score = g.score + 400,
                   !.numLiveObjs = g.numLiveObjs - 1]
    [] OTHER -> g

\* Game.startLevel(levelNum), on g: the demo level resets the player, level
\* 1 adds 13 Crosses and 2 Saucers, a later level numAdding - 1 of them
startLevel(g, levelNum) ==
  LET h == [g EXCEPT !.level = levelNum, !.energyDrainAccum = 0]
  IN  IF levelNum = 0
        THEN [h EXCEPT !.numLiveObjs = 0, !.energy = 100, !.score = 0]
      ELSE IF levelNum = 1 THEN [h EXCEPT !.numLiveObjs = 15]
      ELSE [h EXCEPT !.numLiveObjs = (levelNum + 1) * 4 - 1]

\* Game.update(dt), on g
GameUpdate(g, dt) ==
  IF g.isGameOver
    THEN IF (g.gameOverTime + dt) * FrameMs100 >= GAME_OVER_DURATION * 100
           THEN startLevel([g EXCEPT !.gameOverTime = g.gameOverTime + dt,
                                     !.isGameOver = FALSE], 0)
           ELSE [g EXCEPT !.gameOverTime = g.gameOverTime + dt]
  ELSE IF g.level = 0 THEN g
  ELSE IF g.energy <= 0
    THEN [g EXCEPT !.isGameOver = TRUE, !.gameOverTime = 0]
  ELSE LET interval == IF g.level = 1 THEN 100
                       ELSE Max(20, 100 - 10 * (g.level - 1))
           accum == g.energyDrainAccum + dt
           d == IF accum >= interval
                  THEN [g EXCEPT !.energy = Max(0, g.energy - accum \div interval),
                                 !.energyDrainAccum = accum % interval]
                  ELSE [g EXCEPT !.energyDrainAccum = accum]
       IN  IF d.numLiveObjs <= 0 THEN startLevel(d, d.level + 1) ELSE d

\* loadingLoop, all images loaded: startIntro()
loadingLoop ==
  /\ zgraf.loop = "loading"
  /\ zgraf' = [zgraf EXCEPT !.state = "intro", !.loop = "intro"]
  /\ UNCHANGED << player, shots, frames >>
  /\ lastCall' = Call("loadingLoop", 0, FALSE)
  /\ UNCHANGED << ent, made, objects, pc, idx, curDt, calls, updCount, sinceAdd,
                  result >>

\* introLoop, the animation complete: startAttractMode()
introLoop ==
  /\ zgraf.loop = "intro"
  /\ zgraf' = startLevel([zgraf EXCEPT !.state = "attract", !.loop = "game"], 0)
  /\ player' = [player EXCEPT !.x = 0, !.y = 0, !.z = 0, !.vz = 0]
  /\ shots' = <<>>
  /\ UNCHANGED frames
  /\ lastCall' = Call("introLoop", 0, FALSE)
  /\ UNCHANGED << ent, made, objects, pc, idx, curDt, calls, updCount, sinceAdd,
                  result >>

\* the mousedown listener
mousedown ==
  /\ CASE zgraf.state = "attract" ->
            /\ zgraf' = startLevel([zgraf EXCEPT !.state = "playing",
                                                 !.paused = FALSE], 1)
            /\ UNCHANGED shots
       [] zgraf.state = "playing" /\ zgraf.paused ->
            /\ zgraf' = [zgraf EXCEPT !.paused = FALSE]
            /\ UNCHANGED shots
       [] zgraf.state = "playing" /\ ~zgraf.paused ->
            /\ Len(shots) < MaxShots
            /\ shots' = Append(shots,
                          [PShot(player.x, player.y, player.z) EXCEPT
                             !.vz = player.vz + 250, !.tunnel = TRUE])
            /\ UNCHANGED zgraf
       [] OTHER -> UNCHANGED << zgraf, shots >>
  /\ UNCHANGED << player, frames >>
  /\ UNCHANGED << ent, made, objects, pc, idx, curDt, calls, updCount, sinceAdd,
                  lastCall, result >>

\* the keydown listener, for 'r', the space bar and Escape (the movement
\* keys feed raw); withR: the listener has the restart branch (part_005)
keydown(key, withR) ==
  /\ CASE key = "r" /\ withR /\ zgraf.state # "loading" ->
            /\ zgraf' = startLevel([zgraf EXCEPT !.state = "playing",
                                                 !.paused = FALSE,
                                                 !.energy = 100, !.score = 0],
                                   1)
            /\ player' = [player EXCEPT !.x = 0, !.y = 0, !.z = 0, !.vz = 0]
            /\ shots' = <<>>
            /\ lastCall' = Call("restartGame", 0, FALSE)
       [] key = " " /\ zgraf.state = "playing" /\ ~zgraf.paused ->
            /\ Len(shots) < MaxShots
            /\ shots' = Append(shots,
                          [PShot(player.x, player.y, player.z) EXCEPT
                             !.vz = player.vz + 250, !.tunnel = TRUE])
            /\ UNCHANGED << zgraf, player, lastCall >>
       [] key = "Escape" /\ zgraf.state = "playing" ->
            /\ zgraf' = [zgraf EXCEPT !.paused = ~zgraf.paused]
            /\ UNCHANGED << player, shots, lastCall >>
       [] OTHER -> UNCHANGED << zgraf, player, shots, lastCall >>
  /\ UNCHANGED frames
  /\ UNCHANGED << ent, made, objects, pc, idx, curDt, calls, updCount, sinceAdd,
                  result >>

\* gameLoop(currentTime): deltaTime is dt, raw is player.vz before the
\* speed limit, out is what checkCollisions finds
gameLoop(dt, raw, out) ==
  /\ zgraf.loop = "game"
  /\ frames < MaxLoops
  /\ LET st == IF zgraf.isGameOver /\ zgraf.state # "gameover" THEN "gameover"
               ELSE zgraf.state
         state == IF zgraf.level = 0 /\ st = "gameover" THEN "attract" ELSE st
         g == [zgraf EXCEPT !.state = state]
     IN  CASE state = "attract" ->
                /\ player' = [player EXCEPT
                                !.x = 0, !.y = 0, !.vz = 7,
                                !.z = JsRem(JsRem(player.z + 7 * dt, TunnelLength)
                                              + TunnelLength, TunnelLength)]
                /\ zgraf' = GameUpdate(g, dt)
                /\ UNCHANGED shots
           [] state = "playing" /\ ~zgraf.paused ->
                LET v == Max(-250, Min(250, raw))
                    z == JsRem(JsRem(player.z + v * dt, TunnelLength)
                                 + TunnelLength, TunnelLength)
                    sh == ShotUpdateLoop(shots, Len(shots), dt, z)
                    h == GameUpdate(checkCollisionsOn(g, out), dt)
                    reset == h.level = 0
                IN  /\ out = "shot" => Len(sh) > 0
                    /\ zgraf' = h
                    /\ player' = IF reset
                                   THEN [player EXCEPT !.x = 0, !.y = 0,
                                                       !.z = 0, !.vz = 0]
                                   ELSE [player EXCEPT !.vz = v, !.z = z]
                    /\ shots' = IF reset THEN <<>>
                                ELSE IF out = "shot"
                                  THEN [sh EXCEPT ![1].pleaseRemove = TRUE]
                                ELSE sh
           [] state = "gameover" ->
                LET h == GameUpdate(g, dt)
                    reset == ~h.isGameOver
                IN  /\ zgraf' = h
                    /\ player' = IF reset
                                   THEN [player EXCEPT !.x = 0, !.y = 0,
                                                       !.z = 0, !.vz = 0]
                                   ELSE player
                    /\ shots' = IF reset THEN <<>> ELSE shots
           [] OTHER ->
                /\ zgraf' = g
                /\ UNCHANGED << player, shots >>
  /\ frames' = frames + 1
  /\ lastCall' = Call("gameLoop", 0, FALSE)
  /\ UNCHANGED << ent, made, objects, pc, idx, curDt, calls, updCount, sinceAdd,
                  result >>

\* main.js: no restart key
NextApp ==
  \/ loadingLoop
  \/ introLoop
  \/ mousedown
  \/ \E key \in {"r", " ", "Escape"} : keydown(key, FALSE)
  \/ \E dt \in DtApp, raw \in AppRawVz, out \in PassOutcomes :
       gameLoop(dt, raw, out)

SpecApp == InitPure /\ [][NextApp]_vars

\* part_005: 'r' restarts
NextAppR ==
  \/ loadingLoop
  \/ introLoop
  \/ mousedown
  \/ \E key \in {"r", " ", "Escape"} : keydown(key, TRUE)
  \/ \E dt \in DtApp, raw \in AppRawVz, out \in PassOutcomes :
       gameLoop(dt, raw, out)

SpecAppR == InitPure /\ [][NextAppR]_vars

(***************************************************************************)
(* The application: game over, restart, the player's energy and speed.     *)
(***************************************************************************)
TimeUp(t) == t * FrameMs100 >= GAME_OVER_DURATION * 100

\* a step that fires no shot and processes no collision
QuietStep ==
  /\ shots' = shots /\ player' = player
  /\ zgraf'.energy = zgraf.energy /\ zgraf'.score = zgraf.score
  /\ zgraf'.numLiveObjs = zgraf.numLiveObjs /\ zgraf'.level = zgraf.level

\* a step that ends game over: back in the demo level, the player reset
BackInDemo ==
  /\ TimeUp(zgraf'.gameOverTime)
  /\ zgraf'.level = 0
  /\ zgraf'.energy = 100 /\ zgraf'.score = 0
  /\ player'.x = 0 /\ player'.y = 0 /\ player'.z = 0 /\ player'.vz = 0
  /\ shots' = <<>>

\* C32: from the step that sets isGameOver on, every step leaves the game
\* over, fires no shot and processes no collision while the accumulated
\* frame time is under GAME_OVER_DURATION, and the step that reaches it
\* clears isGameOver, enters the demo level and resets the player
C32_GameOverUntilTimeUp ==
  [][ zgraf.isGameOver =>
        IF zgraf'.isGameOver
          THEN QuietStep /\ ~TimeUp(zgraf'.gameOverTime)
          ELSE BackInDemo ]_vars

\* C33: after 'R' the application is PLAYING at level 1 with no score and
\* full energy, and the frame that follows the restart leaves it PLAYING
C33_RestartStaysPlaying ==
  /\ [](lastCall.op = "restartGame" =>
          /\ zgraf.state = "playing" /\ zgraf.level = 1
          /\ zgraf.score = 0 /\ zgraf.energy = 100)
  /\ [][ lastCall.op = "restartGame" /\ lastCall'.op # "restartGame"
           => zgraf'.state = "playing" ]_vars

\* C39: the energy is within 0..100 and the speed in depth within
\* maxSpeed * SPEED_FACTOR
C39_EnergyAndSpeedBounded ==
  /\ zgraf.energy >= 0 /\ zgraf.energy <= 100
  /\ Abs(player.vz) <= 250

\* the drain of a long frame met an energy of 98, and the speed limit a
\* velocity beyond it
C39_Witness ==
  /\ zgraf.level = 1 /\ zgraf.energy = 0 /\ zgraf.energyDrainAccum = 10
  /\ player.vz = -250

====
